---- MODULE Spec2Model ----
(***************************************************************************)
(* lolelffs: block/inode bitmaps, the per-file extent index, the file      *)
(* write path (write_begin / get_block / write_end), the xattr store's     *)
(* block handling, the per-block codec pipeline and the unlock protocol.   *)
(*                                                                         *)
(* The image is scaled down: a handful of blocks and inodes and a short    *)
(* extent index.  Byte quantities (file positions, sizes, xattr lengths)   *)
(* keep their real values, since they are only integers here.              *)
(***************************************************************************)
EXTENDS Integers, Sequences, FiniteSets, TLC

(***************************************************************************)
(* Bounds of the scaled-down image.                                        *)
(***************************************************************************)
NR_BLOCKS == 13                      \* sbi->nr_blocks
NR_INODES == 2                       \* sbi->nr_inodes (inode 0 is the root)
LOLELFFS_MAX_EXTENTS == 3            \* extents per index block (170 on disk)
LOLELFFS_MAX_BLOCKS_PER_EXTENT == 5  \* 2048 on disk
LOLELFFS_MAX_BLOCKS_PER_EXTENT_LARGE == 8  \* 524288 on disk
MaxCountDrift == 1                   \* cap on how far xattr count may drift from the entries

(***************************************************************************)
(* Program constants.                                                      *)
(***************************************************************************)
LOLELFFS_BLOCK_SIZE == 4096
SMALL_FILE_BLOCKS == 8               \* calc_optimal_extent_size thresholds
MEDIUM_FILE_BLOCKS == 32
XATTR_ENTRY_HEADER == 12             \* sizeof(struct lolelffs_xattr_entry)
XATTR_MAX_DATA_BLOCKS == 8
XATTR_MAX_VALUE == 65535
NR_META_BLOCKS == 5                  \* sb + istore + ifree + bfree + root index

LOLELFFS_MAX_FILESIZE ==
    LOLELFFS_MAX_BLOCKS_PER_EXTENT_LARGE * LOLELFFS_BLOCK_SIZE * LOLELFFS_MAX_EXTENTS

\* Unsigned arithmetic wraps.  The model checker's integers are 32-bit signed,
\* so the unsigned word is 30 bits wide here; every quantity of the scaled
\* image is far below it, and only the wrap-around itself matters.
WordMod == 2 ^ 30
U32(x) == x % WordMod
U64(x) == x % WordMod
NoExtent == WordMod - 1              \* (uint32_t) -1

\* With(v, F) is F(v): a local name for a value that is computed once
With(v, F(_)) == F(v)

Max(a, b) == IF a >= b THEN a ELSE b
Min(a, b) == IF a <= b THEN a ELSE b

Inos == 1 .. (NR_INODES - 1)         \* inodes other than the root
Slots == 0 .. (LOLELFFS_MAX_EXTENTS - 1)

ZeroExtent ==
    [ee_block |-> 0, ee_len |-> 0, ee_start |-> 0,
     ee_comp_algo |-> 0, ee_enc_algo |-> 0, ee_flags |-> 0]
ZeroIndex == [s \in Slots |-> ZeroExtent]
ZeroXattrIndex == [total_size |-> 0, count |-> 0, ee_block |-> 0, ee_start |-> 0, ee_len |-> 0]
NoInode ==
    [live |-> FALSE, i_size |-> 0, i_blocks |-> 0, ei_block |-> 0, xattr_block |-> 0]

VARIABLES
    ifree_bitmap,    \* sbi->ifree_bitmap: bit -> TRUE when the inode is free
    bfree_bitmap,    \* sbi->bfree_bitmap: bit -> TRUE when the block is free
    nr_free_inodes,  \* sbi->nr_free_inodes
    nr_free_blocks,  \* sbi->nr_free_blocks
    inode,           \* in-memory inodes (struct inode + lolelffs_inode_info)
    index,           \* contents of each inode's extent index block
    xindex,          \* contents of each inode's xattr index block
    xdata,           \* the packed xattr entries of each inode, in stored order
    ret,             \* return value of the last operation
    last,            \* what the last operation was and what it did
    sbi,             \* sbi's codec settings and unlock state
    disk,            \* what each data block holds on the device
    pages,           \* the file's page cache, one page per logical block
    ghost,           \* history: what the user wrote, what was written back
    rd,              \* what the last read returned
    pc,              \* where each kernel thread is inside its handler
    loc,             \* the locals of each kernel thread
    locks,           \* holder of sbi->lock and of sbi->enc_lock (0: free)
    disk_index,      \* the extent index block as last synced to the device
    disk_inode       \* the inode's size as last written to the inode store

allocVars == <<ifree_bitmap, bfree_bitmap, nr_free_inodes, nr_free_blocks>>
fileVars == <<inode, index, xindex, xdata>>
ioVars == <<sbi, disk, pages, ghost, rd>>
stepVars == <<pc, loc, locks, disk_index, disk_inode>>
vars == <<ifree_bitmap, bfree_bitmap, nr_free_inodes, nr_free_blocks,
          inode, index, xindex, xdata, ret, last,
          sbi, disk, pages, ghost, rd, pc, loc, locks, disk_index, disk_inode>>

(***************************************************************************)
(* bitmap.h                                                                *)
(***************************************************************************)
bitmap_clear(freemap, start, len) ==
    [b \in DOMAIN freemap |-> IF b >= start /\ b < start + len THEN FALSE ELSE freemap[b]]

bitmap_set(freemap, start, len) ==
    [b \in DOMAIN freemap |-> IF b >= start /\ b < start + len THEN TRUE ELSE freemap[b]]

\* find_first_bit: the lowest set bit below size, or size
RECURSIVE find_next_bit(_, _, _)
find_next_bit(freemap, size, from) ==
    IF from >= size THEN size
    ELSE IF freemap[from] THEN from
    ELSE find_next_bit(freemap, size, from + 1)

\* a run scan that keeps counting across used bits
RECURSIVE scan_runs_no_reset(_, _, _, _, _, _)
scan_runs_no_reset(freemap, size, len, bit, prev, count) ==
    With(find_next_bit(freemap, size, bit), LAMBDA b :
        IF b >= size THEN [ret |-> 0, freemap |-> freemap]
        ELSE With(count + 1, LAMBDA c1 :
                 IF c1 = len
                 THEN [ret |-> b - len + 1,
                       freemap |-> bitmap_clear(freemap, b - len + 1, len)]
                 ELSE scan_runs_no_reset(freemap, size, len, b + 1, b, c1)))

\* the for_each_set_bit loop of get_first_free_bits, entered at `bit`
RECURSIVE scan_runs(_, _, _, _, _, _)
scan_runs(freemap, size, len, bit, prev, count) ==
    With(find_next_bit(freemap, size, bit), LAMBDA b :
        IF b >= size THEN [ret |-> 0, freemap |-> freemap]
        ELSE With((IF prev # U32(b - 1) THEN 0 ELSE count) + 1, LAMBDA c1 :
                 IF c1 = len
                 THEN [ret |-> b - len + 1,
                       freemap |-> bitmap_clear(freemap, b - len + 1, len)]
                 ELSE scan_runs(freemap, size, len, b + 1, b, c1)))

get_first_free_bits(freemap, size, len) ==
    IF len = 1
    THEN With(find_next_bit(freemap, size, 0), LAMBDA bit :
             IF bit < size
             THEN [ret |-> bit, freemap |-> bitmap_clear(freemap, bit, 1)]
             ELSE [ret |-> 0, freemap |-> freemap])
    ELSE scan_runs(freemap, size, len, 0, 0, 0)

\* The allocator state threaded through one handler
AllocState == [imap |-> ifree_bitmap, bmap |-> bfree_bitmap,
               nfi |-> nr_free_inodes, nfb |-> nr_free_blocks]

get_free_inode(a) ==
    With(get_first_free_bits(a.imap, NR_INODES, 1), LAMBDA r :
        [ret |-> r.ret,
         a |-> [a EXCEPT !.imap = r.freemap,
                         !.nfi = IF r.ret # 0 THEN a.nfi - 1 ELSE a.nfi]])

\* a get_free_blocks that takes the blocks off the counter before it knows
\* whether the bitmap had a run of them
get_free_blocks_count_first(a, len) ==
    With(get_first_free_bits(a.bmap, NR_BLOCKS, len), LAMBDA r :
        [ret |-> r.ret, a |-> [a EXCEPT !.bmap = r.freemap, !.nfb = U32(a.nfb - len)]])

get_free_blocks(a, len) ==
    With(get_first_free_bits(a.bmap, NR_BLOCKS, len), LAMBDA r :
        [ret |-> r.ret,
         a |-> [a EXCEPT !.bmap = r.freemap,
                         !.nfb = IF r.ret # 0 THEN a.nfb - len ELSE a.nfb]])

put_free_bits(freemap, size, i, len) ==
    IF U32(i + len - 1) > size
    THEN [ret |-> -1, freemap |-> freemap]
    ELSE [ret |-> 0, freemap |-> bitmap_set(freemap, i, len)]

put_inode(a, ino) ==
    With(put_free_bits(a.imap, NR_INODES, ino, 1), LAMBDA r :
        IF r.ret # 0 THEN a
        ELSE [a EXCEPT !.imap = r.freemap, !.nfi = a.nfi + 1])

put_blocks(a, bno, len) ==
    With(put_free_bits(a.bmap, NR_BLOCKS, bno, len), LAMBDA r :
        IF r.ret # 0 THEN a
        ELSE [a EXCEPT !.bmap = r.freemap, !.nfb = a.nfb + len])

\* an extent size that does not adapt: the length for small files whatever the
\* file has grown to
calc_small_extent_size(nfb, current_blocks) ==
    IF nfb >= 2 THEN 2 ELSE IF nfb = 0 THEN 1 ELSE nfb

calc_optimal_extent_size(nfb, current_blocks) ==
    LET s0 == IF current_blocks < SMALL_FILE_BLOCKS THEN 2
              ELSE IF current_blocks < MEDIUM_FILE_BLOCKS THEN 4
              ELSE LOLELFFS_MAX_BLOCKS_PER_EXTENT
        s1 == IF s0 > nfb THEN nfb ELSE s0
    IN IF s1 = 0 THEN 1 ELSE s1

(***************************************************************************)
(* extent.c                                                                *)
(***************************************************************************)
RECURSIVE count_from(_, _)
count_from(idx, n) ==
    IF n >= LOLELFFS_MAX_EXTENTS THEN n
    ELSE IF idx[n].ee_start = 0 THEN n
    ELSE count_from(idx, n + 1)

lolelffs_count_extents(idx) == count_from(idx, 0)

\* a binary search that takes the block behind an extent for part of it
RECURSIVE bsearch_past_end(_, _, _, _)
bsearch_past_end(idx, iblock, left, right) ==
    IF left >= right THEN NoExtent
    ELSE LET mid == left + (right - left) \div 2
             block == idx[mid].ee_block
             len == idx[mid].ee_len
         IN IF iblock < block THEN bsearch_past_end(idx, iblock, left, mid)
            ELSE IF iblock > block + len THEN bsearch_past_end(idx, iblock, mid + 1, right)
            ELSE mid

RECURSIVE bsearch(_, _, _, _)
bsearch(idx, iblock, left, right) ==
    IF left >= right THEN NoExtent
    ELSE LET mid == left + (right - left) \div 2
             block == idx[mid].ee_block
             len == idx[mid].ee_len
         IN IF iblock < block THEN bsearch(idx, iblock, left, mid)
            ELSE IF iblock >= block + len THEN bsearch(idx, iblock, mid + 1, right)
            ELSE mid

lolelffs_ext_search(idx, iblock) ==
    With(lolelffs_count_extents(idx), LAMBDA nr_extents :
        IF nr_extents = 0 THEN 0
        ELSE With(bsearch(idx, iblock, 0, nr_extents), LAMBDA found :
                 IF found # NoExtent THEN found
                 ELSE IF nr_extents < LOLELFFS_MAX_EXTENTS THEN nr_extents
                 ELSE NoExtent))

(***************************************************************************)
(* file.c: lolelffs_file_get_block                                         *)
(***************************************************************************)
\* the allocation branch of get_block, starting the new extent at the requested
\* block instead of at the end of the previous extent
get_block_extent_at_iblock(a, idx, iblock, extent, alloc_size, r) ==
    IF r.ret = 0
    THEN [ret |-> "ENOSPC", bno |-> 0, a |-> r.a, idx |-> idx, alloc |-> FALSE]
    ELSE [ret |-> "OK", bno |-> r.ret, a |-> r.a, alloc |-> TRUE,
          idx |-> [idx EXCEPT ![extent] =
                     [@ EXCEPT !.ee_start = r.ret, !.ee_len = alloc_size,
                               !.ee_block = iblock]]]

\* the allocation branch: r is the result of get_free_blocks(sbi, alloc_size)
get_block_alloc(a, idx, iblock, extent, alloc_size, r) ==
    IF r.ret = 0
    THEN [ret |-> "ENOSPC", bno |-> 0, a |-> r.a, idx |-> idx, alloc |-> FALSE]
    ELSE [ret |-> "OK", bno |-> r.ret, a |-> r.a, alloc |-> TRUE,
          idx |-> [idx EXCEPT ![extent] =
                     [@ EXCEPT !.ee_start = r.ret,
                               !.ee_len = alloc_size,
                               !.ee_block =
                                   IF extent # 0
                                   THEN idx[extent - 1].ee_block + idx[extent - 1].ee_len
                                   ELSE 0]]]

lolelffs_file_get_block(a, idx, i_blocks, iblock, create) ==
    IF iblock >= LOLELFFS_MAX_BLOCKS_PER_EXTENT * LOLELFFS_MAX_EXTENTS
    THEN [ret |-> "EFBIG", bno |-> 0, a |-> a, idx |-> idx, alloc |-> FALSE]
    ELSE With(lolelffs_ext_search(idx, iblock), LAMBDA extent :
        IF extent = NoExtent
        THEN [ret |-> "EFBIG", bno |-> 0, a |-> a, idx |-> idx, alloc |-> FALSE]
        ELSE IF idx[extent].ee_start = 0
        THEN IF ~create
             THEN [ret |-> "OK", bno |-> 0, a |-> a, idx |-> idx, alloc |-> FALSE]
             ELSE With(calc_optimal_extent_size(a.nfb, i_blocks), LAMBDA alloc_size :
                      get_block_alloc(a, idx, iblock, extent, alloc_size,
                                      get_free_blocks(a, alloc_size)))
        ELSE [ret |-> "OK",
              bno |-> idx[extent].ee_start + iblock - idx[extent].ee_block,
              a |-> a, idx |-> idx, alloc |-> FALSE])

\* a freeing loop that clears the extents without returning their blocks
RECURSIVE clear_extents_from(_, _, _)
clear_extents_from(a, idx, i) ==
    IF i >= LOLELFFS_MAX_EXTENTS THEN [a |-> a, idx |-> idx]
    ELSE IF idx[i].ee_start = 0 THEN [a |-> a, idx |-> idx]
    ELSE clear_extents_from(a, [idx EXCEPT ![i] = ZeroExtent], i + 1)

\* the "free every used extent from slot i on" loop shared by the rollback of
\* write_begin and the truncation of write_end
RECURSIVE free_extents_from(_, _, _)
free_extents_from(a, idx, i) ==
    IF i >= LOLELFFS_MAX_EXTENTS THEN [a |-> a, idx |-> idx]
    ELSE IF idx[i].ee_start = 0 THEN [a |-> a, idx |-> idx]
    ELSE free_extents_from(put_blocks(a, idx[i].ee_start, idx[i].ee_len),
                           [idx EXCEPT ![i] = ZeroExtent], i + 1)

(***************************************************************************)
(* file.c: lolelffs_write_begin.  bwb_fail: block_write_begin fails after  *)
(* its get_block call succeeded (the read of a partially written block     *)
(* fails, or no memory).                                                   *)
(***************************************************************************)
\* a write_begin that returns the error without freeing what get_block
\* allocated
write_begin_no_rollback(gb, nr_extents_before, bwb_fail) ==
    IF gb.ret # "OK" \/ bwb_fail
    THEN [ret |-> IF gb.ret # "OK" THEN gb.ret ELSE "EIO",
          a |-> gb.a, idx |-> gb.idx, bno |-> 0, alloc |-> gb.alloc]
    ELSE gb

\* what write_begin does once block_write_begin has returned: gb is the
\* result of its get_block call
write_begin_finish(gb, nr_extents_before, bwb_fail) ==
    IF gb.ret # "OK" \/ bwb_fail
    THEN With(free_extents_from(gb.a, gb.idx, nr_extents_before), LAMBDA rb :
             [ret |-> IF gb.ret # "OK" THEN gb.ret ELSE "EIO",
              a |-> rb.a, idx |-> rb.idx, bno |-> 0, alloc |-> gb.alloc])
    ELSE gb

lolelffs_write_begin(a, idx, ino_rec, pos, len, bwb_fail) ==
    LET fail(e) == [ret |-> e, a |-> a, idx |-> idx, bno |-> 0, alloc |-> FALSE]
        n0 == U32(Max(pos + len, ino_rec.i_size) \div LOLELFFS_BLOCK_SIZE)
        nr_allocs == IF n0 > U64(ino_rec.i_blocks - 1)
                     THEN U32(n0 - (ino_rec.i_blocks - 1)) ELSE 0
    IN
    IF pos + len > LOLELFFS_MAX_FILESIZE THEN fail("ENOSPC")
    ELSE IF nr_allocs > a.nfb THEN fail("ENOSPC")
    ELSE write_begin_finish(lolelffs_file_get_block(a, idx, ino_rec.i_blocks,
                                                    pos \div LOLELFFS_BLOCK_SIZE, TRUE),
                            lolelffs_count_extents(idx), bwb_fail)

(***************************************************************************)
(* file.c: lolelffs_write_end.  When lolelffs_ext_search returns -1 the    *)
(* code reads index->extents[first_ext] with first_ext = (uint32_t) -1,    *)
(* far beyond the index block.  `ub` chooses what the read does: it        *)
(* faults, it yields an ee_block that differs from i_blocks - 1 (first_ext *)
(* then wraps to 0 and every extent is freed), or it yields an equal one   *)
(* (i becomes -1, which is not below the unsigned LOLELFFS_MAX_EXTENTS, so *)
(* the loop frees nothing).                                                *)
(***************************************************************************)
NoUB == "fault"
UBChoice == {"fault", "differs", "equal"}

\* a truncation that frees from the extent lolelffs_ext_search returned even
\* when the new last block lies inside it
write_end_truncate_covering(a, idx, rec, len, first0, ub) ==
    IF first0 = NoExtent
    THEN [ret |-> "OOPS", a |-> a, idx |-> idx, rec |-> rec, trunc |-> FALSE, ub |-> TRUE]
    ELSE With(free_extents_from(a, idx, first0), LAMBDA f :
              [ret |-> len, a |-> f.a, idx |-> f.idx, rec |-> rec,
               trunc |-> TRUE, ub |-> FALSE])

\* the truncation branch of write_end: first0 is what lolelffs_ext_search
\* returned for i_blocks - 1, rec the updated inode
write_end_truncate(a, idx, rec, len, first0, ub) ==
    IF first0 # NoExtent
    THEN With(free_extents_from(a, idx,
                  IF rec.i_blocks - 1 # idx[first0].ee_block THEN first0 + 1 ELSE first0),
              LAMBDA f : [ret |-> len, a |-> f.a, idx |-> f.idx, rec |-> rec,
                          trunc |-> TRUE, ub |-> FALSE])
    ELSE CASE ub = "fault" ->
                [ret |-> "OOPS", a |-> a, idx |-> idx, rec |-> rec,
                 trunc |-> FALSE, ub |-> TRUE]
           [] ub = "differs" ->
                With(free_extents_from(a, idx, U32(first0 + 1)), LAMBDA f :
                    [ret |-> len, a |-> f.a, idx |-> f.idx, rec |-> rec,
                     trunc |-> TRUE, ub |-> TRUE])
           [] OTHER ->
                [ret |-> len, a |-> a, idx |-> idx, rec |-> rec,
                 trunc |-> TRUE, ub |-> TRUE]

lolelffs_write_end(a, idx, ino_rec, pos, len, ub) ==
    With(Max(ino_rec.i_size, pos + len), LAMBDA i_size :       \* generic_write_end
        With([ino_rec EXCEPT !.i_size = i_size,
                             !.i_blocks = i_size \div LOLELFFS_BLOCK_SIZE + 2],
             LAMBDA rec :
                 IF ~(ino_rec.i_blocks > rec.i_blocks)
                 THEN [ret |-> len, a |-> a, idx |-> idx, rec |-> rec,
                       trunc |-> FALSE, ub |-> FALSE]
                 ELSE write_end_truncate(a, idx, rec, len,
                          lolelffs_ext_search(idx, rec.i_blocks - 1), ub)))

(***************************************************************************)
(* Block contents and the codecs (compress.c, encrypt.c).  A block is two  *)
(* halves; a half is "zero", "text" (compresses well), "prose"             *)
(* (compresses a little), "noise" (barely compresses), "rand" (does not    *)
(* compress) or "garbled" (the bytes of a compressed or encrypted block    *)
(* taken as they are).  A stored block                                     *)
(* remembers the transformations applied to it, so that undoing them with  *)
(* the wrong algorithm, key or tweak does not give the data back.          *)
(***************************************************************************)
LOLELFFS_COMP_NONE == 0
LOLELFFS_COMP_LZ4 == 1
LOLELFFS_COMP_ZLIB == 2
LOLELFFS_COMP_MAX_ALGO == 3
LOLELFFS_ENC_NONE == 0
LOLELFFS_ENC_AES256_XTS == 1
LOLELFFS_ENC_MAX_ALGO == 2
LOLELFFS_EXT_COMPRESSED == 1
LOLELFFS_EXT_ENCRYPTED == 2
CompressedFlag(e) == (e.ee_flags % (2 * LOLELFFS_EXT_COMPRESSED)) \div LOLELFFS_EXT_COMPRESSED = 1
EncryptedFlag(e) == (e.ee_flags % (2 * LOLELFFS_EXT_ENCRYPTED)) \div LOLELFFS_EXT_ENCRYPTED = 1

MaxIOBlock == 1                      \* logical blocks 0 .. MaxIOBlock carry data
MaxWrites == 2                       \* write(2) calls of one run of the I/O model
IOBlocks == 0 .. MaxIOBlock
\* the logical blocks whose pages are followed: one more than the data I/O
\* writes, so that a file can get a second extent
PageBlocks == 0 .. (MaxIOBlock + 1)
DataBlocks == NR_META_BLOCKS .. (NR_BLOCKS - 1)

Halves == {"lo", "hi"}
ZeroData == [lo |-> "zero", hi |-> "zero"]
Garbled == [lo |-> "garbled", hi |-> "garbled"]
NoKey == [lo |-> "none", hi |-> "none"]

Plain(data) ==
    [comp |-> LOLELFFS_COMP_NONE, enc |-> LOLELFFS_ENC_NONE, key |-> NoKey,
     tweak |-> 0, data |-> data]

\* the bytes of a stored block, taken as they are
BytesOf(b) ==
    IF b.comp = LOLELFFS_COMP_NONE /\ b.enc = LOLELFFS_ENC_NONE THEN b.data ELSE Garbled

\* size a half compresses to (the compressors themselves are library code)
HalfSize(h) ==
    CASE h = "zero" -> 16
      [] h = "text" -> 1000
      [] h = "noise" -> 2040
      [] h = "prose" -> 1851
      [] OTHER -> 2100

\* lolelffs_comp_supported: comp_ctx[].available is set for LZ4 and zlib,
\* ZSTD is compiled out
lolelffs_comp_supported(algo) ==
    IF algo > LOLELFFS_COMP_MAX_ALGO THEN FALSE
    ELSE IF algo = LOLELFFS_COMP_NONE THEN TRUE
    ELSE algo \in {LOLELFFS_COMP_LZ4, LOLELFFS_COMP_ZLIB}

\* lolelffs_enc_supported: available is enc_ctx[algo].available
lolelffs_enc_supported(algo, available) ==
    IF algo > LOLELFFS_ENC_MAX_ALGO THEN FALSE
    ELSE IF algo = LOLELFFS_ENC_NONE THEN TRUE
    ELSE available

\* lolelffs_compress_block on a whole plain block
lolelffs_compress_block(algo, b) ==
    IF algo = LOLELFFS_COMP_NONE \/ algo > LOLELFFS_COMP_MAX_ALGO
    THEN [ret |-> "EINVAL", comp_size |-> 0, out |-> b]
    ELSE IF ~lolelffs_comp_supported(algo)
    THEN [ret |-> "EOPNOTSUPP", comp_size |-> 0, out |-> b]
    ELSE With(HalfSize(BytesOf(b).lo) + HalfSize(BytesOf(b).hi), LAMBDA n :
             IF n >= LOLELFFS_BLOCK_SIZE
             THEN [ret |-> "E2BIG", comp_size |-> n, out |-> b]
             ELSE [ret |-> "OK", comp_size |-> n,
                   out |-> [Plain(BytesOf(b)) EXCEPT !.comp = algo]])

\* lolelffs_decompress_block: the stream must be one this algorithm wrote
lolelffs_decompress_block(algo, b) ==
    IF algo = LOLELFFS_COMP_NONE \/ algo > LOLELFFS_COMP_MAX_ALGO
    THEN [ret |-> "EINVAL", out |-> b]
    ELSE IF ~lolelffs_comp_supported(algo)
    THEN [ret |-> "EOPNOTSUPP", out |-> b]
    ELSE IF b.enc = LOLELFFS_ENC_NONE /\ b.comp = algo
    THEN [ret |-> "OK", out |-> Plain(b.data)]
    ELSE [ret |-> "EIO", out |-> b]

\* lolelffs_encrypt_block / lolelffs_decrypt_block.  The skcipher of enc_ctx
\* is allocated by lolelffs_enc_init and no key is ever set on it (the key
\* argument is not used), so the kernel's cipher refuses the request.
lolelffs_encrypt_block(algo, key, block_num, b, available) ==
    IF algo = LOLELFFS_ENC_NONE \/ algo > LOLELFFS_ENC_MAX_ALGO
    THEN [ret |-> "EINVAL", out |-> b]
    ELSE IF ~available THEN [ret |-> "EOPNOTSUPP", out |-> b]
    ELSE [ret |-> "ENOKEY", out |-> b]

lolelffs_decrypt_block(algo, key, block_num, b, available) ==
    IF algo = LOLELFFS_ENC_NONE \/ algo > LOLELFFS_ENC_MAX_ALGO
    THEN [ret |-> "EINVAL", out |-> b]
    ELSE IF ~available THEN [ret |-> "EOPNOTSUPP", out |-> b]
    ELSE [ret |-> "ENOKEY", out |-> b]

F == NR_INODES - 1                   \* the file the I/O model works on
NoPage == [present |-> FALSE, data |-> ZeroData, dirty |-> FALSE, bno |-> 0]
Unwritten == [lo |-> "unwritten", hi |-> "unwritten"]
NoRead == [blk |-> 0, cached |-> FALSE, enc |-> LOLELFFS_ENC_NONE, data |-> ZeroData]
LastOp(op, alloc) == [op |-> op, ino |-> F, alloc |-> alloc, trunc |-> FALSE, ub |-> FALSE]

IOIdle ==
    /\ sbi = [comp_enabled |-> FALSE, comp_default_algo |-> LOLELFFS_COMP_NONE,
              enc_enabled |-> FALSE, enc_default_algo |-> LOLELFFS_ENC_NONE,
              enc_unlocked |-> FALSE, enc_master_key_decrypted |-> NoKey,
              enc_available |-> TRUE]
    /\ disk = [b \in DataBlocks |-> Plain(ZeroData)]
    /\ pages = [k \in PageBlocks |-> NoPage]
    /\ ghost = [data |-> [k \in PageBlocks |-> Unwritten],
                synced |-> [k \in PageBlocks |-> FALSE], unlock_ok |-> FALSE,
                nr_writes |-> 0]
    /\ rd = NoRead

(***************************************************************************)
(* Kernel threads stepping through the handlers (used by the models of     *)
(* the lock protocol and of the write ordering).                           *)
(***************************************************************************)
Threads == {1, 2}
NoLoc ==
    [op |-> "none", iblock |-> 0, password |-> "none", key |-> NoKey, todo |-> {},
     used_key |-> FALSE, extent |-> 0, bno |-> 0, alloc_size |-> 0,
     pos |-> 0, len |-> 0, bwb_fail |-> FALSE, nr_extents_before |-> 0,
     phase |-> "none",
     changes_index |-> FALSE, index_written |-> FALSE, inode_flushed |-> FALSE]

StepsIdle ==
    /\ pc = [t \in Threads |-> "idle"]
    /\ loc = [t \in Threads |-> NoLoc]
    /\ locks = [lock |-> 0, enc_lock |-> 0]
    /\ disk_index = ZeroIndex
    /\ disk_inode = [i_size |-> 0, i_blocks |-> 0]

(***************************************************************************)
(* State after mkfs and mount.                                             *)
(***************************************************************************)
InitFS ==
    /\ ifree_bitmap = [i \in 0 .. (NR_INODES - 1) |-> i # 0]
    /\ bfree_bitmap = [b \in 0 .. (NR_BLOCKS - 1) |-> b >= NR_META_BLOCKS]
    /\ nr_free_inodes = NR_INODES - 1
    /\ nr_free_blocks = NR_BLOCKS - NR_META_BLOCKS
    /\ inode = [i \in Inos |-> NoInode]
    /\ index = [i \in Inos |-> ZeroIndex]
    /\ xindex = [i \in Inos |-> ZeroXattrIndex]
    /\ xdata = [i \in Inos |-> <<>>]
    /\ ret = "OK"
    /\ last = [op |-> "mount", ino |-> 0, alloc |-> FALSE, trunc |-> FALSE, ub |-> FALSE]

Init == InitFS /\ IOIdle /\ StepsIdle

SetAlloc(a) ==
    /\ ifree_bitmap' = a.imap
    /\ bfree_bitmap' = a.bmap
    /\ nr_free_inodes' = a.nfi
    /\ nr_free_blocks' = a.nfb

(***************************************************************************)
(* Inode creation and deletion (inode.c).                                  *)
(***************************************************************************)
CreateInode ==
    \E gi \in {get_free_inode(AllocState)} :
    \E gb \in {get_free_blocks(gi.a, 1)} :
        /\ IF gi.ret = 0
           THEN /\ SetAlloc(gi.a)
                /\ ret' = "ENOSPC"
                /\ UNCHANGED <<inode, index>>
           ELSE IF gb.ret = 0
           THEN /\ SetAlloc(put_inode(gb.a, gi.ret))
                /\ ret' = "ENOSPC"
                /\ UNCHANGED <<inode, index>>
           ELSE /\ SetAlloc(gb.a)
                /\ ret' = "OK"
                /\ inode' = [inode EXCEPT ![gi.ret] =
                               [live |-> TRUE, i_size |-> 0, i_blocks |-> 0,
                                ei_block |-> gb.ret, xattr_block |-> 0]]
                /\ index' = [index EXCEPT ![gi.ret] = ZeroIndex]
        /\ last' = [op |-> "create", ino |-> gi.ret, alloc |-> gb.ret # 0,
                    trunc |-> FALSE, ub |-> FALSE]
        /\ UNCHANGED <<xindex, xdata, ioVars, stepVars>>

\* lolelffs_xattr_free_blocks
lolelffs_xattr_free_blocks(a, rec, xi) ==
    IF rec.xattr_block = 0 THEN a
    ELSE LET a1 == IF xi.ee_start = 0 THEN a ELSE put_blocks(a, xi.ee_start, xi.ee_len)
         IN put_blocks(a1, rec.xattr_block, 1)

FreeInode(ino) ==
    /\ inode[ino].live
    /\ LET f == free_extents_from(AllocState, index[ino], 0)
           a1 == put_blocks(f.a, inode[ino].ei_block, 1)
           a2 == lolelffs_xattr_free_blocks(a1, inode[ino], xindex[ino])
       IN SetAlloc(put_inode(a2, ino))
    /\ inode' = [inode EXCEPT ![ino] = NoInode]
    /\ index' = [index EXCEPT ![ino] = ZeroIndex]
    /\ xindex' = [xindex EXCEPT ![ino] = ZeroXattrIndex]
    /\ xdata' = [xdata EXCEPT ![ino] = <<>>]
    /\ ret' = "OK"
    /\ last' = [op |-> "free_inode", ino |-> ino, alloc |-> FALSE,
                trunc |-> FALSE, ub |-> FALSE]
    /\ UNCHANGED <<ioVars, stepVars>>

(***************************************************************************)
(* One write() of at most one page: write_begin, the copy, write_end.      *)
(***************************************************************************)
Write(ino, pos, len, bwb_fail) ==
    /\ inode[ino].live
    /\ \E wb \in {lolelffs_write_begin(AllocState, index[ino], inode[ino],
                                       pos, len, bwb_fail)} :
          IF wb.ret # "OK"
          THEN /\ SetAlloc(wb.a)
               /\ index' = [index EXCEPT ![ino] = wb.idx]
               /\ ret' = wb.ret
               /\ last' = [op |-> "write_begin", ino |-> ino, alloc |-> wb.alloc,
                           trunc |-> FALSE, ub |-> FALSE]
               /\ UNCHANGED inode
          ELSE \E ub \in UBChoice :
               \E we \in {lolelffs_write_end(wb.a, wb.idx, inode[ino], pos, len, ub)} :
                  /\ we.ub \/ ub = NoUB    \* ub matters only when the read happens
                  /\ SetAlloc(we.a)
                  /\ index' = [index EXCEPT ![ino] = we.idx]
                  /\ inode' = [inode EXCEPT ![ino] = we.rec]
                  /\ ret' = we.ret
                  /\ last' = [op |-> "write", ino |-> ino, alloc |-> wb.alloc,
                              trunc |-> we.trunc, ub |-> we.ub,
                              nr_extents |-> lolelffs_count_extents(wb.idx)]
    /\ UNCHANGED <<xindex, xdata, ioVars, stepVars>>

\* The VFS changes i_size on truncate(2)/O_TRUNC (simple_setattr); the
\* filesystem frees the extents in the next write_end.  truncate_setsize
\* drops the pages beyond the new size.
pages_truncated(pgs, size) ==
    [k \in DOMAIN pgs |-> IF k * LOLELFFS_BLOCK_SIZE >= size THEN NoPage ELSE pgs[k]]

SetSize(ino, size) ==
    /\ inode[ino].live
    /\ inode[ino].i_size # size
    /\ inode' = [inode EXCEPT ![ino].i_size = size]
    /\ pages' = IF ino = F THEN pages_truncated(pages, size) ELSE pages
    /\ ret' = "OK"
    /\ last' = [op |-> "setsize", ino |-> ino, alloc |-> FALSE, trunc |-> FALSE, ub |-> FALSE]
    /\ UNCHANGED <<allocVars, index, xindex, xdata, sbi, disk, ghost, rd, stepVars>>

(***************************************************************************)
(* xattr.c: lolelffs_xattr_set.  An entry of the packed list is kept as    *)
(* [name, value_len, value]; NoValue is the NULL value of a removal.       *)
(***************************************************************************)
XATTR_CREATE == 1
XATTR_REPLACE == 2
NoValue == [len |-> 0, val |-> "null"]

NameLen(name) ==
    CASE name = "" -> 0
      [] name = "a" -> 1
      [] name = "b" -> 1
      [] OTHER -> 300

Align4(n) == ((n + 3) \div 4) * 4
EntrySize(e) == Align4(XATTR_ENTRY_HEADER + NameLen(e.name) + 1 + e.value_len)

RECURSIVE DataSize(_)
DataSize(entries) ==
    IF entries = <<>> THEN 0 ELSE EntrySize(Head(entries)) + DataSize(Tail(entries))

\* lolelffs_xattr_find_entry: position of the first entry with this name, or 0
RECURSIVE find_from(_, _, _)
find_from(entries, name, k) ==
    IF k > Len(entries) THEN 0
    ELSE IF entries[k].name = name THEN k
    ELSE find_from(entries, name, k + 1)

lolelffs_xattr_find_entry(entries, name) == find_from(entries, name, 1)

\* the removal that drops the last entry whatever entry was found
RemoveLast(entries, k) == [j \in 1 .. (Len(entries) - 1) |-> entries[j]]

RemoveAt(entries, k) ==
    [j \in 1 .. (Len(entries) - 1) |-> IF j < k THEN entries[j] ELSE entries[j + 1]]

lolelffs_xattr_set(a, rec, xi, entries, name, value, flags, io_fail) ==
    LET name_len == NameLen(name)
        out(e, a1, rec1, xi1, ents1) ==
            [ret |-> e, a |-> a1, rec |-> rec1, xi |-> xi1, entries |-> ents1]
        \* removal
        k == lolelffs_xattr_find_entry(entries, name)
        \* allocation of the xattr index block
        gx == get_free_blocks(a, 1)
        a1 == IF rec.xattr_block = 0 THEN gx.a ELSE a
        rec1 == IF rec.xattr_block = 0 THEN [rec EXCEPT !.xattr_block = gx.ret] ELSE rec
        xi1 == IF rec.xattr_block = 0 THEN ZeroXattrIndex ELSE xi
        ents1 == IF rec.xattr_block = 0 THEN <<>> ELSE entries
        k1 == lolelffs_xattr_find_entry(ents1, name)
        \* the old entry is dropped from the copy and ei->count is decremented
        ents2 == IF k1 # 0 THEN RemoveAt(ents1, k1) ELSE ents1
        xi2 == IF k1 # 0 THEN [xi1 EXCEPT !.count = U32(xi1.count - 1)] ELSE xi1
        new_entry == [name |-> name, value_len |-> value.len, value |-> value.val]
        new_data_size == DataSize(ents2) + EntrySize(new_entry)
        blocks_needed == (new_data_size + LOLELFFS_BLOCK_SIZE - 1) \div LOLELFFS_BLOCK_SIZE
        realloc == xi2.ee_start = 0 \/ xi2.ee_len < blocks_needed
        gd == get_free_blocks(a1, blocks_needed)
        a2 == IF xi2.ee_start # 0 THEN put_blocks(gd.a, xi2.ee_start, xi2.ee_len) ELSE gd.a
        xi3 == IF realloc
               THEN [xi2 EXCEPT !.ee_block = 0, !.ee_start = gd.ret, !.ee_len = blocks_needed]
               ELSE xi2
    IN
    IF name_len = 0 \/ name_len > 255 THEN out("EINVAL", a, rec, xi, entries)
    ELSE IF value.len > XATTR_MAX_VALUE THEN out("ENOSPC", a, rec, xi, entries)
    ELSE IF value = NoValue
    THEN IF rec.xattr_block = 0 THEN out("ENODATA", a, rec, xi, entries)
         ELSE IF k = 0 THEN out("ENODATA", a, rec, xi, entries)
         ELSE out("OK", a, rec,
                  [xi EXCEPT !.total_size = DataSize(entries) - EntrySize(entries[k]),
                             !.count = U32(xi.count - 1)],
                  RemoveAt(entries, k))
    ELSE IF rec.xattr_block = 0 /\ gx.ret = 0 THEN out("ENOSPC", gx.a, rec, xi, entries)
    ELSE IF rec.xattr_block = 0 /\ io_fail
         THEN out("EIO", put_blocks(gx.a, gx.ret, 1), rec, xi, entries)
    ELSE IF k1 # 0 /\ flags = XATTR_CREATE THEN out("EEXIST", a1, rec1, xi1, ents1)
    ELSE IF k1 = 0 /\ flags = XATTR_REPLACE THEN out("ENODATA", a1, rec1, xi1, ents1)
    ELSE IF new_data_size > LOLELFFS_BLOCK_SIZE * XATTR_MAX_DATA_BLOCKS
         THEN out("ENOSPC", a1, rec1, xi2, ents1)
    ELSE IF realloc /\ gd.ret = 0 THEN out("ENOSPC", gd.a, rec1, xi2, ents1)
    ELSE out("OK", IF realloc THEN a2 ELSE a1, rec1,
             [xi3 EXCEPT !.total_size = new_data_size, !.count = U32(xi2.count + 1)],
             Append(ents2, new_entry))

XattrSet(ino, name, value, flags, io_fail) ==
    /\ inode[ino].live
    /\ LET r == lolelffs_xattr_set(AllocState, inode[ino], xindex[ino], xdata[ino],
                                   name, value, flags, io_fail)
       IN /\ SetAlloc(r.a)
          /\ inode' = [inode EXCEPT ![ino] = r.rec]
          /\ xindex' = [xindex EXCEPT ![ino] = r.xi]
          /\ xdata' = [xdata EXCEPT ![ino] = r.entries]
          /\ ret' = r.ret
          /\ last' = [op |-> "xattr_set", ino |-> ino,
                      alloc |-> r.a.nfb < nr_free_blocks, trunc |-> FALSE, ub |-> FALSE]
          /\ U32(Len(r.entries) - r.xi.count) <= MaxCountDrift
    /\ UNCHANGED <<index, ioVars, stepVars>>

(***************************************************************************)
(* Inputs of the operations.                                               *)
(***************************************************************************)
WritePositions ==
    {0, 2 * LOLELFFS_BLOCK_SIZE, 4 * LOLELFFS_BLOCK_SIZE, 5 * LOLELFFS_BLOCK_SIZE,
     6 * LOLELFFS_BLOCK_SIZE,
     LOLELFFS_MAX_BLOCKS_PER_EXTENT * LOLELFFS_MAX_EXTENTS * LOLELFFS_BLOCK_SIZE,
     LOLELFFS_MAX_FILESIZE}
WriteLens == {LOLELFFS_BLOCK_SIZE}
Sizes == {0, 30 * LOLELFFS_BLOCK_SIZE}
XattrValues ==
    [small |-> [len |-> 3, val |-> "v"], two_blocks |-> [len |-> 5000, val |-> "w"],
     many_blocks |-> [len |-> 40000, val |-> "y"], too_long |-> [len |-> 70000, val |-> "x"]]
XattrInputs ==
    {<<"", XattrValues.small, 0>>, <<"long", XattrValues.small, 0>>,
     <<"a", XattrValues.too_long, 0>>, <<"a", XattrValues.many_blocks, XATTR_REPLACE>>,
     <<"a", NoValue, 0>>} \cup
    {<<"a", v, f>> : v \in {XattrValues.small, XattrValues.two_blocks},
                     f \in {0, XATTR_CREATE, XATTR_REPLACE}}

NextWrite ==
    \E ino \in Inos, pos \in WritePositions, len \in WriteLens, bwb_fail \in BOOLEAN :
        /\ (pos % LOLELFFS_BLOCK_SIZE) + len <= LOLELFFS_BLOCK_SIZE
        /\ Write(ino, pos, len, bwb_fail)

NextSetSize == \E ino \in Inos, size \in Sizes : SetSize(ino, size)

NextFreeInode == \E ino \in Inos : FreeInode(ino)

NextXattrSet ==
    \E ino \in Inos, in \in XattrInputs :
        \E io_fail \in (IF inode[ino].xattr_block = 0 THEN BOOLEAN ELSE {FALSE}) :
            XattrSet(ino, in[1], in[2], in[3], io_fail)

Next ==
    \/ CreateInode
    \/ NextFreeInode
    \/ NextWrite
    \/ NextSetSize
    \/ NextXattrSet

Spec == Init /\ [][Next]_vars

(***************************************************************************)
(* file.c: lolelffs_read_folio.  s is sbi, dsk the device (raw image, the  *)
(* filesystem starts at block 0).                                          *)
(***************************************************************************)
\* the decrypt-then-decompress pipeline on the block read from the device
read_folio_pipeline(s, e, iblock, stored) ==
    With(IF e.ee_enc_algo # LOLELFFS_ENC_NONE
            /\ lolelffs_enc_supported(e.ee_enc_algo, s.enc_available)
         THEN IF ~s.enc_unlocked
              THEN [ret |-> "EPERM", out |-> stored]
              ELSE lolelffs_decrypt_block(e.ee_enc_algo, s.enc_master_key_decrypted,
                                          iblock, stored, s.enc_available)
         ELSE [ret |-> "OK", out |-> stored],
         LAMBDA dec :
             IF dec.ret # "OK"
             THEN [ret |-> dec.ret, data |-> ZeroData, enc |-> e.ee_enc_algo]
             ELSE IF e.ee_comp_algo # LOLELFFS_COMP_NONE
                     /\ lolelffs_comp_supported(e.ee_comp_algo)
             THEN With(lolelffs_decompress_block(e.ee_comp_algo, dec.out), LAMBDA dc :
                      IF dc.ret # "OK"
                      THEN [ret |-> dc.ret, data |-> ZeroData, enc |-> e.ee_enc_algo]
                      ELSE [ret |-> "OK", data |-> BytesOf(dc.out),
                            enc |-> e.ee_enc_algo])
             ELSE [ret |-> "OK", data |-> BytesOf(dec.out), enc |-> e.ee_enc_algo])

lolelffs_read_folio(s, rec, idx, dsk, iblock) ==
    IF iblock * LOLELFFS_BLOCK_SIZE >= rec.i_size
    THEN [ret |-> "OK", data |-> ZeroData, enc |-> LOLELFFS_ENC_NONE]
    ELSE With(lolelffs_ext_search(idx, iblock), LAMBDA extent_idx :
        IF extent_idx = NoExtent
        THEN [ret |-> "OK", data |-> ZeroData, enc |-> LOLELFFS_ENC_NONE]
        ELSE IF idx[extent_idx].ee_start = 0
        THEN [ret |-> "OK", data |-> ZeroData, enc |-> LOLELFFS_ENC_NONE]
        ELSE read_folio_pipeline(s, idx[extent_idx], iblock,
                 dsk[idx[extent_idx].ee_start + (iblock - idx[extent_idx].ee_block)]))

(***************************************************************************)
(* file.c: lolelffs_writepage_locked.  The result names the block written  *)
(* (blk, 0 when none was) and the index with the extent's codec fields     *)
(* updated.                                                                *)
(***************************************************************************)
\* step 1: the compressed form is used when it saves at least 5%
writepage_compress(comp_algo, b) ==
    IF comp_algo # LOLELFFS_COMP_NONE /\ lolelffs_comp_supported(comp_algo)
    THEN With(lolelffs_compress_block(comp_algo, b), LAMBDA c :
             IF c.ret = "OK" /\ c.comp_size < (LOLELFFS_BLOCK_SIZE * 95) \div 100
             THEN [buf |-> c.out, used_comp_algo |-> comp_algo,
                   flags |-> LOLELFFS_EXT_COMPRESSED]
             ELSE [buf |-> b, used_comp_algo |-> LOLELFFS_COMP_NONE, flags |-> 0])
    ELSE [buf |-> b, used_comp_algo |-> LOLELFFS_COMP_NONE, flags |-> 0]

\* step 2: encryption
writepage_encrypt(s, enc_algo, iblock, c) ==
    IF enc_algo # LOLELFFS_ENC_NONE /\ lolelffs_enc_supported(enc_algo, s.enc_available)
    THEN IF ~s.enc_unlocked
         THEN [ret |-> "EPERM", buf |-> c.buf, used_comp_algo |-> c.used_comp_algo,
               used_enc_algo |-> LOLELFFS_ENC_NONE, flags |-> c.flags]
         ELSE With(lolelffs_encrypt_block(enc_algo, s.enc_master_key_decrypted, iblock,
                                          c.buf, s.enc_available),
                   LAMBDA en :
                       IF en.ret = "OK"
                       THEN [ret |-> "OK", buf |-> en.out,
                             used_comp_algo |-> c.used_comp_algo,
                             used_enc_algo |-> enc_algo,
                             flags |-> c.flags + LOLELFFS_EXT_ENCRYPTED]
                       ELSE [ret |-> en.ret, buf |-> c.buf,
                             used_comp_algo |-> c.used_comp_algo,
                             used_enc_algo |-> LOLELFFS_ENC_NONE, flags |-> c.flags])
    ELSE [ret |-> "OK", buf |-> c.buf, used_comp_algo |-> c.used_comp_algo,
          used_enc_algo |-> LOLELFFS_ENC_NONE, flags |-> c.flags]

\* the extent update with the flags alone
writepage_store_flags(idx, extent_idx, phys_block, w) ==
    IF w.ret # "OK"
    THEN [ret |-> w.ret, idx |-> idx, blk |-> 0, stored |-> w.buf]
    ELSE [ret |-> "OK", blk |-> phys_block, stored |-> w.buf,
          idx |-> [idx EXCEPT ![extent_idx] = [@ EXCEPT !.ee_flags = w.flags]]]

\* the block write and the update of the extent's codec fields
writepage_store(idx, extent_idx, phys_block, w) ==
    IF w.ret # "OK"
    THEN [ret |-> w.ret, idx |-> idx, blk |-> 0, stored |-> w.buf]
    ELSE [ret |-> "OK", blk |-> phys_block, stored |-> w.buf,
          idx |-> IF w.used_comp_algo # idx[extent_idx].ee_comp_algo
                     \/ w.used_enc_algo # idx[extent_idx].ee_enc_algo
                     \/ w.flags # idx[extent_idx].ee_flags
                  THEN [idx EXCEPT ![extent_idx] =
                           [@ EXCEPT !.ee_comp_algo = w.used_comp_algo,
                                     !.ee_enc_algo = w.used_enc_algo,
                                     !.ee_flags = w.flags]]
                  ELSE idx]

lolelffs_writepage_locked(s, idx, iblock, data) ==
    With(lolelffs_ext_search(idx, iblock), LAMBDA extent_idx :
        IF extent_idx = NoExtent
        THEN [ret |-> "EIO", idx |-> idx, blk |-> 0, stored |-> Plain(data)]
        ELSE IF idx[extent_idx].ee_start = 0
        THEN [ret |-> "EIO", idx |-> idx, blk |-> 0, stored |-> Plain(data)]
        ELSE writepage_store(idx, extent_idx,
                 idx[extent_idx].ee_start + (iblock - idx[extent_idx].ee_block),
                 writepage_encrypt(s,
                     IF s.enc_enabled THEN s.enc_default_algo ELSE LOLELFFS_ENC_NONE,
                     iblock,
                     writepage_compress(
                         IF s.comp_enabled THEN s.comp_default_algo
                         ELSE LOLELFFS_COMP_NONE,
                         Plain(data)))))

(***************************************************************************)
(* File data I/O on inode F through the page cache: write(2) of one block  *)
(* or half a block, write-back, page eviction, read(2), and the unlock     *)
(* ioctl.                                                                  *)
(***************************************************************************)
\* write_begin on a page whose buffer is already mapped: block_write_begin
\* does not call get_block again
write_begin_cached(a, idx, ino_rec, pos, len, bno) ==
    LET n0 == U32(Max(pos + len, ino_rec.i_size) \div LOLELFFS_BLOCK_SIZE)
        nr_allocs == IF n0 > U64(ino_rec.i_blocks - 1)
                     THEN U32(n0 - (ino_rec.i_blocks - 1)) ELSE 0
    IN
    IF pos + len > LOLELFFS_MAX_FILESIZE \/ nr_allocs > a.nfb
    THEN [ret |-> "ENOSPC", a |-> a, idx |-> idx, bno |-> 0, alloc |-> FALSE]
    ELSE [ret |-> "OK", a |-> a, idx |-> idx, bno |-> bno, alloc |-> FALSE]

\* the page after the copy from user space.  get_block never marks the
\* buffer new, so a partial write into a page that is not cached first reads
\* the mapped block from the device as it is.
page_after_copy(page, dsk, bno, part, val) ==
    [present |-> TRUE, dirty |-> TRUE, bno |-> bno,
     data |-> IF part = "full" THEN [lo |-> val, hi |-> val]
              ELSE [(IF page.present THEN page.data ELSE BytesOf(dsk[bno]))
                        EXCEPT ![part] = val]]

IOWrite(iblock, part, val) ==
    /\ inode[F].live
    /\ ghost.nr_writes < MaxWrites
    /\ \E pos \in {iblock * LOLELFFS_BLOCK_SIZE
                   + (IF part = "hi" THEN LOLELFFS_BLOCK_SIZE \div 2 ELSE 0)} :
       \E len \in {IF part = "full" THEN LOLELFFS_BLOCK_SIZE
                   ELSE LOLELFFS_BLOCK_SIZE \div 2} :
       \E wb \in {IF pages[iblock].present /\ pages[iblock].bno # 0
                  THEN write_begin_cached(AllocState, index[F], inode[F], pos, len,
                                          pages[iblock].bno)
                  ELSE lolelffs_write_begin(AllocState, index[F], inode[F],
                                            pos, len, FALSE)} :
          IF wb.ret # "OK"
          THEN /\ SetAlloc(wb.a)
               /\ index' = [index EXCEPT ![F] = wb.idx]
               /\ ret' = wb.ret
               /\ last' = LastOp("write_begin", wb.alloc)
               /\ ghost' = [ghost EXCEPT !.nr_writes = @ + 1]
               /\ UNCHANGED <<inode, pages>>
          ELSE \E we \in {lolelffs_write_end(wb.a, wb.idx, inode[F], pos, len, NoUB)} :
                  /\ SetAlloc(we.a)
                  /\ index' = [index EXCEPT ![F] = we.idx]
                  /\ inode' = [inode EXCEPT ![F] = we.rec]
                  /\ ret' = we.ret
                  /\ last' = LastOp("write", wb.alloc)
                  /\ pages' = [pages EXCEPT ![iblock] =
                                  page_after_copy(@, disk, wb.bno, part, val)]
                  /\ ghost' = [ghost EXCEPT
                                  !.data[iblock] =
                                      IF part = "full" THEN [lo |-> val, hi |-> val]
                                      ELSE [@ EXCEPT ![part] = val],
                                  !.synced[iblock] = FALSE,
                                  !.nr_writes = @ + 1]
    /\ rd' = [NoRead EXCEPT !.blk = iblock]
    /\ UNCHANGED <<xindex, xdata, sbi, disk, stepVars>>

\* lolelffs_writepages for one dirty page: mpage_writepages writes the page
\* to the block its buffer is mapped to; the custom path clears the dirty
\* flag and calls lolelffs_writepage_locked
Writeback(iblock) ==
    /\ pages[iblock].present /\ pages[iblock].dirty
    /\ IF ~sbi.enc_enabled /\ ~sbi.comp_enabled
       THEN /\ disk' = [disk EXCEPT ![pages[iblock].bno] = Plain(pages[iblock].data)]
            /\ ret' = "OK"
            /\ ghost' = [ghost EXCEPT !.synced[iblock] = TRUE]
            /\ UNCHANGED index
       ELSE \E w \in {lolelffs_writepage_locked(sbi, index[F], iblock,
                                                pages[iblock].data)} :
               /\ disk' = IF w.ret = "OK" THEN [disk EXCEPT ![w.blk] = w.stored]
                          ELSE disk
               /\ index' = [index EXCEPT ![F] = w.idx]
               /\ ret' = w.ret
               /\ ghost' = [ghost EXCEPT !.synced[iblock] = (w.ret = "OK")]
    /\ pages' = [pages EXCEPT ![iblock].dirty = FALSE]
    /\ last' = LastOp("writeback", FALSE)
    /\ rd' = [NoRead EXCEPT !.blk = iblock]
    /\ UNCHANGED <<allocVars, inode, xindex, xdata, sbi, stepVars>>

\* memory pressure drops a clean page
Evict(iblock) ==
    /\ pages[iblock].present /\ ~pages[iblock].dirty
    /\ pages' = [pages EXCEPT ![iblock] = NoPage]
    /\ ret' = "OK"
    /\ last' = LastOp("evict", FALSE)
    /\ rd' = [NoRead EXCEPT !.blk = iblock]
    /\ UNCHANGED <<allocVars, fileVars, sbi, disk, ghost, stepVars>>

\* read(2) of one block below i_size: from the page cache, else read_folio
Read(iblock) ==
    /\ inode[F].live
    /\ iblock * LOLELFFS_BLOCK_SIZE < inode[F].i_size
    /\ IF pages[iblock].present
       THEN /\ rd' = [blk |-> iblock, cached |-> TRUE, enc |-> LOLELFFS_ENC_NONE,
                      data |-> pages[iblock].data]
            /\ ret' = "OK"
            /\ UNCHANGED pages
       ELSE \E r \in {lolelffs_read_folio(sbi, inode[F], index[F], disk, iblock)} :
               /\ rd' = [blk |-> iblock, cached |-> FALSE, enc |-> r.enc,
                         data |-> r.data]
               /\ ret' = r.ret
               /\ pages' = IF r.ret = "OK"
                           THEN [pages EXCEPT ![iblock] =
                                    [present |-> TRUE, data |-> r.data,
                                     dirty |-> FALSE, bno |-> 0]]
                           ELSE pages
    /\ last' = LastOp("read", FALSE)
    /\ UNCHANGED <<allocVars, fileVars, sbi, disk, ghost, stepVars>>

(***************************************************************************)
(* dir.c: lolelffs_ioctl, LOLELFFS_IOC_UNLOCK.  The master key the image   *)
(* was formatted with is "K"; unwrapping the stored key with the key       *)
(* derived from another password gives other bytes, and nothing checks     *)
(* them.                                                                   *)
(***************************************************************************)
Passwords == {"correct", "wrong"}
MasterKey == [lo |-> "K", hi |-> "K"]

lolelffs_decrypt_master_key(password) ==
    IF password = "correct" THEN MasterKey ELSE [lo |-> "not K", hi |-> "not K"]

lolelffs_ioctl_unlock(s, password) ==
    IF ~s.enc_enabled THEN [ret |-> "EINVAL", s |-> s]
    ELSE IF s.enc_unlocked THEN [ret |-> "OK", s |-> s]
    ELSE [ret |-> "OK",
          s |-> [s EXCEPT !.enc_master_key_decrypted =
                              lolelffs_decrypt_master_key(password),
                          !.enc_unlocked = TRUE]]

Unlock(password) ==
    \E u \in {lolelffs_ioctl_unlock(sbi, password)} :
        /\ sbi' = u.s
        /\ ret' = u.ret
        /\ last' = LastOp("unlock", FALSE)
        /\ ghost' = [ghost EXCEPT !.unlock_ok =
                        @ \/ (password = "correct" /\ u.ret = "OK")]
        /\ rd' = NoRead
        /\ UNCHANGED <<allocVars, fileVars, disk, pages, stepVars>>

(***************************************************************************)
(* The images the I/O model starts from: every codec setting, the cipher   *)
(* present in the kernel or not.  An encrypted image comes with one file   *)
(* of two blocks written by the user-space tool and is mounted locked.     *)
(***************************************************************************)
ToolStart == NR_META_BLOCKS + 1
ToolBlock(k) ==
    [comp |-> LOLELFFS_COMP_NONE, enc |-> LOLELFFS_ENC_AES256_XTS, key |-> MasterKey,
     tweak |-> k, data |-> [lo |-> "text", hi |-> "text"]]

InitToolImage ==
    /\ ifree_bitmap = [i \in 0 .. (NR_INODES - 1) |-> i \notin {0, F}]
    /\ bfree_bitmap = [b \in 0 .. (NR_BLOCKS - 1) |-> b > ToolStart + MaxIOBlock]
    /\ nr_free_inodes = NR_INODES - 2
    /\ nr_free_blocks = NR_BLOCKS - (ToolStart + MaxIOBlock + 1)
    /\ inode = [i \in Inos |->
                   IF i = F
                   THEN [live |-> TRUE, i_size |-> (MaxIOBlock + 1) * LOLELFFS_BLOCK_SIZE,
                         i_blocks |-> MaxIOBlock + 3, ei_block |-> NR_META_BLOCKS,
                         xattr_block |-> 0]
                   ELSE NoInode]
    /\ index = [i \in Inos |->
                   IF i = F
                   THEN [ZeroIndex EXCEPT ![0] =
                            [ee_block |-> 0, ee_len |-> MaxIOBlock + 1,
                             ee_start |-> ToolStart,
                             ee_comp_algo |-> LOLELFFS_COMP_NONE,
                             ee_enc_algo |-> LOLELFFS_ENC_AES256_XTS,
                             ee_flags |-> LOLELFFS_EXT_ENCRYPTED]]
                   ELSE ZeroIndex]
    /\ xindex = [i \in Inos |-> ZeroXattrIndex]
    /\ xdata = [i \in Inos |-> <<>>]
    /\ ret = "OK"
    /\ last = [op |-> "mount", ino |-> 0, alloc |-> FALSE, trunc |-> FALSE, ub |-> FALSE]
    /\ disk = [b \in DataBlocks |->
                  IF b \in ToolStart .. (ToolStart + MaxIOBlock)
                  THEN ToolBlock(b - ToolStart) ELSE Plain(ZeroData)]
    /\ ghost = [data |-> [k \in PageBlocks |-> IF k \in IOBlocks
                                                 THEN [lo |-> "text", hi |-> "text"]
                                                 ELSE Unwritten],
                synced |-> [k \in PageBlocks |-> k \in IOBlocks], unlock_ok |-> FALSE,
                nr_writes |-> 0]

InitIO ==
    /\ \E comp \in {LOLELFFS_COMP_NONE, LOLELFFS_COMP_LZ4, LOLELFFS_COMP_ZLIB},
          enc \in {LOLELFFS_ENC_NONE, LOLELFFS_ENC_AES256_XTS},
          available \in BOOLEAN :
          sbi = [comp_enabled |-> comp # LOLELFFS_COMP_NONE, comp_default_algo |-> comp,
                 enc_enabled |-> enc # LOLELFFS_ENC_NONE, enc_default_algo |-> enc,
                 enc_unlocked |-> FALSE, enc_master_key_decrypted |-> NoKey,
                 enc_available |-> available]
    /\ IF sbi.enc_enabled
       THEN InitToolImage
       ELSE /\ InitFS
            /\ disk = [b \in DataBlocks |-> Plain(ZeroData)]
            /\ ghost = [data |-> [k \in PageBlocks |-> Unwritten],
                        synced |-> [k \in PageBlocks |-> FALSE], unlock_ok |-> FALSE,
                        nr_writes |-> 0]
    /\ pages = [k \in PageBlocks |-> NoPage]
    /\ rd = NoRead
    /\ StepsIdle

WriteParts == {"full", "lo", "hi"}
WriteValues == {"text", "noise"}

NextIOWrite ==
    \E iblock \in IOBlocks, part \in WriteParts, val \in WriteValues :
        IOWrite(iblock, part, val)
NextWriteback == \E iblock \in IOBlocks : Writeback(iblock)
NextEvict == \E iblock \in IOBlocks : Evict(iblock)
NextRead == \E iblock \in IOBlocks : Read(iblock)
NextUnlock == \E password \in Passwords : Unlock(password)

NextIO ==
    \/ CreateInode
    \/ NextIOWrite
    \/ NextWriteback
    \/ NextEvict
    \/ NextRead
    \/ NextUnlock

SpecIO == InitIO /\ [][NextIO]_vars

(***************************************************************************)
(* The write-back of pages of every compressibility: the data I/O model    *)
(* with a third write value, so that a block can compress to any side of   *)
(* the limit of lolelffs_writepage_locked and to the limit itself          *)
(* ("prose" in one half and "noise" in the other).                         *)
(***************************************************************************)
CompressValues == {"text", "noise", "prose"}

NextCompressWrite ==
    \E iblock \in IOBlocks, part \in WriteParts, val \in CompressValues :
        IOWrite(iblock, part, val)

NextCompress ==
    \/ CreateInode
    \/ NextCompressWrite
    \/ NextWriteback
    \/ NextEvict

SpecCompress == InitIO /\ [][NextCompress]_vars

(***************************************************************************)
(* The unlock ioctl and the I/O paths step by step, as threads that        *)
(* interleave.  sbi->enc_lock is taken where the code takes it.  The       *)
(* stores of the unlock critical section (the two halves of the memcpy of  *)
(* the key, the flag) are plain stores: a thread that reads without the    *)
(* mutex may see them in any order.                                        *)
(***************************************************************************)
SetPc(t, label) == pc' = [pc EXCEPT ![t] = label]
Done(t, r, op) ==
    /\ pc' = [pc EXCEPT ![t] = "idle"]
    /\ ret' = r
    /\ last' = LastOp(op, FALSE)

\* dir.c 212-218: csb->enc_enabled
UnlockBegin(t, password) ==
    /\ pc[t] = "idle"
    /\ loc' = [loc EXCEPT ![t] = [NoLoc EXCEPT !.op = "unlock", !.password = password]]
    /\ IF ~sbi.enc_enabled
       THEN Done(t, "EINVAL", "unlock")
       ELSE SetPc(t, "ul_lock1") /\ UNCHANGED <<ret, last>>
    /\ UNCHANGED <<allocVars, fileVars, ioVars, locks, disk_index, disk_inode>>

\* dir.c 222: mutex_lock(&sbi->enc_lock)
UnlockLock1(t) ==
    /\ pc[t] = "ul_lock1"
    /\ locks.enc_lock = 0
    /\ locks' = [locks EXCEPT !.enc_lock = t]
    /\ SetPc(t, "ul_check")
    /\ UNCHANGED <<allocVars, fileVars, ioVars, ret, last, loc, disk_index, disk_inode>>

\* an unlock that does not test enc_unlocked and always goes on to derive
\* and store the key
UnlockCheckSkipped(t) ==
    /\ pc[t] = "ul_check"
    /\ locks' = [locks EXCEPT !.enc_lock = 0]
    /\ SetPc(t, "ul_derive")
    /\ UNCHANGED <<allocVars, fileVars, ioVars, loc, ret, last, disk_index, disk_inode>>

\* dir.c 223-229: already unlocked -> return 0
UnlockCheck(t) ==
    /\ pc[t] = "ul_check"
    /\ locks' = [locks EXCEPT !.enc_lock = 0]
    /\ IF sbi.enc_unlocked
       THEN Done(t, "OK", "unlock")
       ELSE SetPc(t, "ul_derive") /\ UNCHANGED <<ret, last>>
    /\ UNCHANGED <<allocVars, fileVars, ioVars, loc, disk_index, disk_inode>>

\* dir.c 231-265: copy_from_user, lolelffs_derive_key, lolelffs_decrypt_master_key
UnlockDerive(t) ==
    /\ pc[t] = "ul_derive"
    /\ loc' = [loc EXCEPT ![t].key = lolelffs_decrypt_master_key(loc[t].password)]
    /\ SetPc(t, "ul_lock2")
    /\ UNCHANGED <<allocVars, fileVars, ioVars, ret, last, locks, disk_index, disk_inode>>

\* dir.c 268: mutex_lock(&sbi->enc_lock)
UnlockLock2(t) ==
    /\ pc[t] = "ul_lock2"
    /\ locks.enc_lock = 0
    /\ locks' = [locks EXCEPT !.enc_lock = t]
    /\ loc' = [loc EXCEPT ![t].todo = {"key_lo", "key_hi", "flag"}]
    /\ SetPc(t, "ul_store")
    /\ UNCHANGED <<allocVars, fileVars, ioVars, ret, last, disk_index, disk_inode>>

\* one store of dir.c 269-270
unlock_store(s, key, w) ==
    CASE w = "key_lo" -> [s EXCEPT !.enc_master_key_decrypted.lo = key.lo]
      [] w = "key_hi" -> [s EXCEPT !.enc_master_key_decrypted.hi = key.hi]
      [] OTHER -> [s EXCEPT !.enc_unlocked = TRUE]

UnlockStore(t, w) ==
    /\ pc[t] = "ul_store"
    /\ w \in loc[t].todo
    /\ sbi' = unlock_store(sbi, loc[t].key, w)
    /\ loc' = [loc EXCEPT ![t].todo = @ \ {w}]
    /\ SetPc(t, IF loc[t].todo = {w} THEN "ul_unlock2" ELSE "ul_store")
    /\ UNCHANGED <<allocVars, fileVars, disk, pages, ghost, rd, ret, last, locks,
                   disk_index, disk_inode>>

\* dir.c 271-274: mutex_unlock, ret = 0
UnlockUnlock2(t) ==
    /\ pc[t] = "ul_unlock2"
    /\ locks' = [locks EXCEPT !.enc_lock = 0]
    /\ Done(t, "OK", "unlock")
    /\ ghost' = [ghost EXCEPT !.unlock_ok = @ \/ loc[t].password = "correct"]
    /\ UNCHANGED <<allocVars, fileVars, sbi, disk, pages, rd, loc, disk_index, disk_inode>>

\* the folio lock: no other thread is inside a handler for this page
PageFree(t, iblock) ==
    \A u \in Threads \ {t} :
        pc[u] \in {"rf_check", "rf_decrypt", "wp_check", "wp_encrypt", "wp_store",
                  "wp_meta", "wp_sync"}
            => loc[u].iblock # iblock

\* the extent lolelffs_read_folio / lolelffs_writepage_locked finds for iblock
ExtentOf(idx, iblock) ==
    With(lolelffs_ext_search(idx, iblock), LAMBDA extent_idx :
        IF extent_idx = NoExtent THEN ZeroExtent ELSE idx[extent_idx])

\* file.c 100-166: read_folio up to the test that guards the decryption; a
\* block that needs no key is read in this step
ReadBegin(t, iblock) ==
    /\ pc[t] = "idle"
    /\ inode[F].live
    /\ iblock * LOLELFFS_BLOCK_SIZE < inode[F].i_size
    /\ ~pages[iblock].present
    /\ PageFree(t, iblock)
    /\ loc' = [loc EXCEPT ![t] = [NoLoc EXCEPT !.op = "read_folio", !.iblock = iblock]]
    /\ \E e \in {ExtentOf(index[F], iblock)} :
          IF e.ee_start # 0 /\ e.ee_enc_algo # LOLELFFS_ENC_NONE
             /\ lolelffs_enc_supported(e.ee_enc_algo, sbi.enc_available)
          THEN /\ SetPc(t, "rf_check")
               /\ UNCHANGED <<ret, last, pages, rd>>
          ELSE \E r \in {lolelffs_read_folio(sbi, inode[F], index[F], disk, iblock)} :
                  /\ Done(t, r.ret, "read")
                  /\ rd' = [blk |-> iblock, cached |-> FALSE, enc |-> r.enc,
                            data |-> r.data]
                  /\ pages' = IF r.ret = "OK"
                              THEN [pages EXCEPT ![iblock] =
                                       [present |-> TRUE, data |-> r.data,
                                        dirty |-> FALSE, bno |-> 0]]
                              ELSE pages
    /\ UNCHANGED <<allocVars, fileVars, sbi, disk, ghost, locks, disk_index, disk_inode>>

\* file.c 168-174: if (!sbi->enc_unlocked) -> -EPERM
ReadCheck(t) ==
    /\ pc[t] = "rf_check"
    /\ IF ~sbi.enc_unlocked
       THEN /\ Done(t, "EPERM", "read")
            /\ rd' = [NoRead EXCEPT !.blk = loc[t].iblock,
                                    !.enc = ExtentOf(index[F], loc[t].iblock).ee_enc_algo]
       ELSE /\ SetPc(t, "rf_decrypt")
            /\ UNCHANGED <<ret, last, rd>>
    /\ UNCHANGED <<allocVars, fileVars, sbi, disk, pages, ghost, loc, locks,
                   disk_index, disk_inode>>

\* file.c 176-222: lolelffs_decrypt_block with sbi->enc_master_key_decrypted
\* as it is now, then the rest of the pipeline
ReadDecrypt(t) ==
    /\ pc[t] = "rf_decrypt"
    /\ loc' = [loc EXCEPT ![t].key = sbi.enc_master_key_decrypted, ![t].used_key = TRUE]
    /\ \E r \in {lolelffs_read_folio([sbi EXCEPT !.enc_unlocked = TRUE], inode[F],
                                     index[F], disk, loc[t].iblock)} :
          /\ Done(t, r.ret, "read")
          /\ rd' = [blk |-> loc[t].iblock, cached |-> FALSE, enc |-> r.enc,
                    data |-> r.data]
          /\ pages' = IF r.ret = "OK"
                      THEN [pages EXCEPT ![loc[t].iblock] =
                               [present |-> TRUE, data |-> r.data,
                                dirty |-> FALSE, bno |-> 0]]
                      ELSE pages
    /\ UNCHANGED <<allocVars, fileVars, sbi, disk, ghost, locks, disk_index, disk_inode>>

\* what the completion of a write-back does to the model's state
WritepageDone(t, iblock, w) ==
    /\ Done(t, w.ret, "writeback")
    /\ disk' = IF w.ret = "OK" THEN [disk EXCEPT ![w.blk] = w.stored] ELSE disk
    /\ index' = [index EXCEPT ![F] = w.idx]
    /\ ghost' = [ghost EXCEPT !.synced[iblock] = (w.ret = "OK")]
    /\ rd' = [NoRead EXCEPT !.blk = iblock]

\* file.c 444-452, 250-334: folio_clear_dirty_for_io, then writepage_locked up
\* to the test that guards the encryption; a block that needs no key is
\* written in this step
WritepageBegin(t, iblock) ==
    /\ pc[t] = "idle"
    /\ pages[iblock].present /\ pages[iblock].dirty
    /\ PageFree(t, iblock)
    /\ sbi.enc_enabled \/ sbi.comp_enabled
    /\ pages' = [pages EXCEPT ![iblock].dirty = FALSE]
    /\ loc' = [loc EXCEPT ![t] = [NoLoc EXCEPT !.op = "writepage", !.iblock = iblock]]
    /\ IF ExtentOf(index[F], iblock).ee_start # 0
          /\ sbi.enc_enabled /\ sbi.enc_default_algo # LOLELFFS_ENC_NONE
          /\ lolelffs_enc_supported(sbi.enc_default_algo, sbi.enc_available)
       THEN /\ SetPc(t, "wp_check")
            /\ UNCHANGED <<ret, last, disk, index, ghost, rd>>
       ELSE \E w \in {lolelffs_writepage_locked(sbi, index[F], iblock,
                                                pages[iblock].data)} :
               WritepageDone(t, iblock, w)
    /\ UNCHANGED <<allocVars, inode, xindex, xdata, sbi, locks, disk_index, disk_inode>>

\* file.c 342-348: if (!sbi->enc_unlocked) -> -EPERM
WritepageCheck(t) ==
    /\ pc[t] = "wp_check"
    /\ IF ~sbi.enc_unlocked
       THEN /\ Done(t, "EPERM", "writeback")
            /\ ghost' = [ghost EXCEPT !.synced[loc[t].iblock] = FALSE]
            /\ rd' = [NoRead EXCEPT !.blk = loc[t].iblock]
       ELSE /\ SetPc(t, "wp_encrypt")
            /\ UNCHANGED <<ret, last, ghost, rd>>
    /\ UNCHANGED <<allocVars, fileVars, sbi, disk, pages, loc, locks,
                   disk_index, disk_inode>>

\* file.c 350-388: lolelffs_encrypt_block with sbi->enc_master_key_decrypted
\* as it is now, then the block write and the extent metadata
WritepageEncrypt(t) ==
    /\ pc[t] = "wp_encrypt"
    /\ loc' = [loc EXCEPT ![t].key = sbi.enc_master_key_decrypted, ![t].used_key = TRUE]
    /\ \E w \in {lolelffs_writepage_locked([sbi EXCEPT !.enc_unlocked = TRUE], index[F],
                                           loc[t].iblock, pages[loc[t].iblock].data)} :
          WritepageDone(t, loc[t].iblock, w)
    /\ UNCHANGED <<allocVars, inode, xindex, xdata, sbi, pages, locks,
                   disk_index, disk_inode>>

\* write(2) while the threads run; the folio lock keeps it off a page that
\* is being read or written back
EncWrite(iblock, part, val) ==
    /\ PageFree(0, iblock)
    /\ IOWrite(iblock, part, val)

InitEnc ==
    /\ \E available \in BOOLEAN :
          sbi = [comp_enabled |-> FALSE, comp_default_algo |-> LOLELFFS_COMP_NONE,
                 enc_enabled |-> TRUE, enc_default_algo |-> LOLELFFS_ENC_AES256_XTS,
                 enc_unlocked |-> FALSE, enc_master_key_decrypted |-> NoKey,
                 enc_available |-> available]
    /\ InitToolImage
    /\ pages = [k \in PageBlocks |-> NoPage]
    /\ rd = NoRead
    /\ StepsIdle

NextEncUnlock ==
    \E t \in Threads :
        \/ \E password \in Passwords : UnlockBegin(t, password)
        \/ UnlockLock1(t)
        \/ UnlockCheck(t)
        \/ UnlockDerive(t)
        \/ UnlockLock2(t)
        \/ \E w \in {"key_lo", "key_hi", "flag"} : UnlockStore(t, w)
        \/ UnlockUnlock2(t)

NextEncRead ==
    \E t \in Threads :
        \/ \E iblock \in IOBlocks : ReadBegin(t, iblock)
        \/ ReadCheck(t)
        \/ ReadDecrypt(t)

NextEncWriteback ==
    \E t \in Threads :
        \/ \E iblock \in IOBlocks : WritepageBegin(t, iblock)
        \/ WritepageCheck(t)
        \/ WritepageEncrypt(t)

NextEncWrite == \E iblock \in IOBlocks : EncWrite(iblock, "full", "text")

NextEnc ==
    \/ NextEncUnlock
    \/ NextEncRead
    \/ NextEncWriteback
    \/ NextEncWrite

SpecEnc == InitEnc /\ [][NextEnc]_vars

(***************************************************************************)
(* dir.c, fs.c: the life of the key in memory.  An encrypted image is      *)
(* mounted locked; it is unlocked, read, sent other ioctl requests and     *)
(* unmounted and mounted again.  lolelffs_ioctl knows LOLELFFS_IOC_UNLOCK  *)
(* and LOLELFFS_IOC_ENC_STATUS; a request to lock is any other command.    *)
(* kill_block_super calls lolelffs_put_super of super.c, which is modelled *)
(* as the specification describes it.                                      *)
(***************************************************************************)
IoctlCmds == {"ENC_STATUS", "LOCK"}

lolelffs_ioctl(s, cmd, password) ==
    CASE cmd = "UNLOCK" -> lolelffs_ioctl_unlock(s, password)
      [] cmd = "ENC_STATUS" -> [ret |-> "OK", s |-> s]
      [] OTHER -> [ret |-> "ENOTTY", s |-> s]

Ioctl(cmd) ==
    \E u \in {lolelffs_ioctl(sbi, cmd, "none")} :
        /\ sbi' = u.s
        /\ ret' = u.ret
        /\ last' = LastOp(IF cmd = "LOCK" THEN "lock" ELSE "enc_status", FALSE)
        /\ rd' = NoRead
        /\ UNCHANGED <<allocVars, fileVars, disk, pages, ghost, stepVars>>

lolelffs_put_super(s) ==
    [s EXCEPT !.enc_unlocked = FALSE, !.enc_master_key_decrypted = NoKey]

\* umount followed by the next mount: the page cache is dropped
KillSb ==
    /\ sbi' = lolelffs_put_super(sbi)
    /\ pages' = [k \in PageBlocks |-> NoPage]
    /\ ghost' = [ghost EXCEPT !.unlock_ok = FALSE]
    /\ ret' = "OK"
    /\ last' = LastOp("kill_sb", FALSE)
    /\ rd' = NoRead
    /\ UNCHANGED <<allocVars, fileVars, disk, stepVars>>

NextIoctl == \E cmd \in IoctlCmds : Ioctl(cmd)

NextKey ==
    \/ NextUnlock
    \/ NextRead
    \/ NextEvict
    \/ NextIoctl
    \/ KillSb

SpecKey == InitEnc /\ [][NextKey]_vars

(***************************************************************************)
(* dir.c 231-274, lolelffs_derive_key: the request of the unlock ioctl.    *)
(* struct lolelffs_ioctl_unlock carries the password in a buffer of        *)
(* PASSWORD_SIZE bytes and its length in password_len, both set by the     *)
(* caller.  crypto_shash_setkey takes the password_len bytes at            *)
(* req.password as the HMAC key.  The password the image was formatted     *)
(* with is CorrectLen bytes long.                                          *)
(***************************************************************************)
PASSWORD_SIZE == 256
LOLELFFS_KDF_ARGON2ID == 1
LOLELFFS_KDF_PBKDF2 == 2
CorrectLen == 8

PasswordLens ==
    {0, 1, CorrectLen, PASSWORD_SIZE - 1, PASSWORD_SIZE, PASSWORD_SIZE + 1,
     PASSWORD_SIZE + 4, PASSWORD_SIZE + 5, LOLELFFS_BLOCK_SIZE, WordMod - 1}

\* what a read behind the request on the kernel stack can end in
StackReads == {"stack bytes", "fault"}

\* read: the bytes crypto_shash_setkey reads at password
lolelffs_derive_key(kdf_algo, password, password_len) ==
    IF kdf_algo # LOLELFFS_KDF_PBKDF2
    THEN [ret |-> "EOPNOTSUPP", read |-> 0, user_key |-> "none"]
    ELSE [ret |-> "OK", read |-> password_len,
          user_key |-> IF password = "correct" /\ password_len = CorrectLen
                       THEN "correct" ELSE "wrong"]

lolelffs_ioctl_unlock_req(s, password, password_len, stack) ==
    IF ~s.enc_enabled THEN [ret |-> "EINVAL", s |-> s, read |-> 0]
    ELSE IF s.enc_unlocked THEN [ret |-> "OK", s |-> s, read |-> 0]
    ELSE With(lolelffs_derive_key(s.enc_kdf_algo, password, password_len), LAMBDA d :
            IF d.ret # "OK" THEN [ret |-> d.ret, s |-> s, read |-> d.read]
            ELSE IF d.read > PASSWORD_SIZE + 4 /\ stack = "fault"
            THEN [ret |-> "fault", s |-> s, read |-> d.read]
            ELSE [ret |-> "OK",
                  s |-> [s EXCEPT !.enc_master_key_decrypted =
                                      lolelffs_decrypt_master_key(
                                          IF d.read > PASSWORD_SIZE THEN "wrong"
                                          ELSE d.user_key),
                                  !.enc_unlocked = TRUE],
                  read |-> d.read])

InitPassword ==
    /\ \E available \in BOOLEAN, kdf \in {LOLELFFS_KDF_ARGON2ID, LOLELFFS_KDF_PBKDF2} :
          sbi = [comp_enabled |-> FALSE, comp_default_algo |-> LOLELFFS_COMP_NONE,
                 enc_enabled |-> TRUE, enc_default_algo |-> LOLELFFS_ENC_AES256_XTS,
                 enc_unlocked |-> FALSE, enc_master_key_decrypted |-> NoKey,
                 enc_available |-> available, enc_kdf_algo |-> kdf]
    /\ InitToolImage
    /\ pages = [k \in PageBlocks |-> NoPage]
    /\ rd = NoRead
    /\ StepsIdle

UnlockReq(password, password_len, stack) ==
    \E u \in {lolelffs_ioctl_unlock_req(sbi, password, password_len, stack)} :
        /\ sbi' = u.s
        /\ ret' = u.ret
        /\ last' = [op |-> "unlock", password |-> password,
                    password_len |-> password_len, read |-> u.read]
        /\ ghost' = [ghost EXCEPT !.unlock_ok =
                        u.s.enc_unlocked /\ u.s.enc_master_key_decrypted = MasterKey]
        /\ rd' = NoRead
        /\ UNCHANGED <<allocVars, fileVars, disk, pages, stepVars>>

NextPassword ==
    \/ \E password \in Passwords, password_len \in PasswordLens, stack \in StackReads :
          UnlockReq(password, password_len, stack)
    \/ KillSb

SpecPassword == InitPassword /\ [][NextPassword]_vars

(***************************************************************************)
(* The write path and the write-back path step by step: one thread writes  *)
(* (the inode's i_rwsem admits one writer), another writes dirty pages     *)
(* back.  sbi->lock is taken where the code takes it, inside               *)
(* get_free_blocks and put_blocks.  disk_index is the extent index block   *)
(* as sync_dirty_buffer last wrote it, disk_inode the inode as             *)
(* lolelffs_write_inode last flushed it.                                   *)
(***************************************************************************)
SetLoc(t, l) == loc' = [loc EXCEPT ![t] = l]

\* i_rwsem: no other thread is inside write(2) or truncate
NoOtherWriter(t) == \A u \in Threads \ {t} : pc[u] = "idle" \/ loc[u].op # "write"

\* where the freeing loops of write_begin and write_end go for slot i
FreeLoopEntry(idx, i, phase) ==
    IF i < LOLELFFS_MAX_EXTENTS /\ idx[i].ee_start # 0 THEN "fr_lock"
    ELSE IF phase = "truncate" THEN "tr_sync"
    ELSE "rb_done"

\* file.c 509-526, 24-62: write_begin's checks, then block_write_begin calls
\* get_block unless the page's buffer is mapped already.  bwb_fail: the
\* read of the rest of a partially written block fails after get_block
WriteBeginStart(t, pos, len, bwb_fail) ==
    /\ pc[t] = "idle"
    /\ bwb_fail => len < LOLELFFS_BLOCK_SIZE
    /\ inode[F].live
    /\ NoOtherWriter(t)
    /\ PageFree(t, pos \div LOLELFFS_BLOCK_SIZE)
    /\ \E iblock \in {pos \div LOLELFFS_BLOCK_SIZE} :
       \E l \in {[NoLoc EXCEPT !.op = "write", !.iblock = iblock, !.pos = pos,
                               !.len = len, !.bwb_fail = bwb_fail,
                               !.nr_extents_before = lolelffs_count_extents(index[F])]} :
       \E chk \in {write_begin_cached(AllocState, index[F], inode[F], pos, len,
                                      pages[iblock].bno)} :
       \E extent \in {IF iblock >= LOLELFFS_MAX_BLOCKS_PER_EXTENT * LOLELFFS_MAX_EXTENTS
                      THEN NoExtent ELSE lolelffs_ext_search(index[F], iblock)} :
          IF chk.ret # "OK"
          THEN Done(t, chk.ret, "write_begin") /\ SetLoc(t, l)
          ELSE IF pages[iblock].present /\ pages[iblock].bno # 0
          THEN /\ SetPc(t, "we_inode")
               /\ SetLoc(t, [l EXCEPT !.bno = pages[iblock].bno])
               /\ UNCHANGED <<ret, last>>
          ELSE IF extent = NoExtent
          THEN Done(t, "EFBIG", "write_begin") /\ SetLoc(t, l)
          ELSE IF index[F][extent].ee_start = 0
          THEN /\ SetPc(t, "gb_lock")
               /\ SetLoc(t, [l EXCEPT !.extent = extent,
                                      !.alloc_size =
                                          calc_optimal_extent_size(nr_free_blocks,
                                                                   inode[F].i_blocks)])
               /\ UNCHANGED <<ret, last>>
          ELSE IF bwb_fail
          THEN Done(t, "EIO", "write_begin") /\ SetLoc(t, l)
          ELSE /\ SetPc(t, "we_inode")
               /\ SetLoc(t, [l EXCEPT !.bno = index[F][extent].ee_start + iblock
                                               - index[F][extent].ee_block])
               /\ UNCHANGED <<ret, last>>
    /\ UNCHANGED <<allocVars, fileVars, ioVars, locks, disk_index, disk_inode>>

\* dir.c 577: get_free_blocks, mutex_lock(&sbi->lock)
GbLock(t) ==
    /\ pc[t] = "gb_lock"
    /\ locks.lock = 0
    /\ locks' = [locks EXCEPT !.lock = t]
    /\ SetPc(t, "gb_bits")
    /\ UNCHANGED <<allocVars, fileVars, ioVars, ret, last, loc, disk_index, disk_inode>>

\* dir.c 578-583: the bitmap and the counter change, mutex_unlock; file.c
\* 65-68: -ENOSPC when nothing was found (the rollback finds nothing to free)
GbBits(t) ==
    /\ pc[t] = "gb_bits"
    /\ locks' = [locks EXCEPT !.lock = 0]
    /\ \E r \in {get_free_blocks(AllocState, loc[t].alloc_size)} :
          /\ SetAlloc(r.a)
          /\ IF r.ret = 0
             THEN Done(t, "ENOSPC", "write_begin") /\ UNCHANGED loc
             ELSE /\ SetPc(t, "gb_index")
                  /\ SetLoc(t, [loc[t] EXCEPT !.bno = r.ret])
                  /\ UNCHANGED <<ret, last>>
    /\ UNCHANGED <<fileVars, ioVars, disk_index, disk_inode>>

\* file.c 69-75: the extent is entered in the index block's buffer
GbIndex(t) ==
    /\ pc[t] = "gb_index"
    /\ index' = [index EXCEPT ![F] =
                    get_block_alloc(AllocState, index[F], loc[t].iblock, loc[t].extent,
                                    loc[t].alloc_size,
                                    [ret |-> loc[t].bno, a |-> AllocState]).idx]
    /\ SetLoc(t, [loc[t] EXCEPT !.changes_index = TRUE])
    /\ SetPc(t, "gb_sync")
    /\ UNCHANGED <<allocVars, inode, xindex, xdata, ioVars, ret, last, locks,
                   disk_index, disk_inode>>

\* file.c 84-88: mark_buffer_dirty, sync_dirty_buffer; then block_write_begin
\* returns to write_begin
GbSync(t) ==
    /\ pc[t] = "gb_sync"
    /\ disk_index' = index[F]
    /\ SetLoc(t, [loc[t] EXCEPT !.index_written = TRUE, !.phase = "rollback",
                                !.extent = loc[t].nr_extents_before])
    /\ SetPc(t, IF loc[t].bwb_fail
                THEN FreeLoopEntry(index[F], loc[t].nr_extents_before, "rollback")
                ELSE "we_inode")
    /\ UNCHANGED <<allocVars, fileVars, ioVars, ret, last, locks, disk_inode>>

\* dir.c 629: put_blocks, mutex_lock(&sbi->lock)
FrLock(t) ==
    /\ pc[t] = "fr_lock"
    /\ locks.lock = 0
    /\ locks' = [locks EXCEPT !.lock = t]
    /\ SetPc(t, "fr_bits")
    /\ UNCHANGED <<allocVars, fileVars, ioVars, ret, last, loc, disk_index, disk_inode>>

\* dir.c 630-632: the bits are set free and counted, mutex_unlock
FrBits(t) ==
    /\ pc[t] = "fr_bits"
    /\ locks' = [locks EXCEPT !.lock = 0]
    /\ SetAlloc(put_blocks(AllocState, index[F][loc[t].extent].ee_start,
                           index[F][loc[t].extent].ee_len))
    /\ SetPc(t, "fr_clear")
    /\ UNCHANGED <<fileVars, ioVars, ret, last, loc, disk_index, disk_inode>>

\* file.c 546-547, 619-620: memset of the extent, next slot
FrClear(t) ==
    /\ pc[t] = "fr_clear"
    /\ index' = [index EXCEPT ![F][loc[t].extent] = ZeroExtent]
    /\ SetLoc(t, [loc[t] EXCEPT !.extent = @ + 1, !.changes_index = TRUE,
                                !.index_written = FALSE])
    /\ SetPc(t, FreeLoopEntry(index[F], loc[t].extent + 1, loc[t].phase))
    /\ UNCHANGED <<allocVars, inode, xindex, xdata, ioVars, ret, last, locks,
                   disk_index, disk_inode>>

\* file.c 549-554: the rollback marks the buffer dirty and returns the error
RbDone(t) ==
    /\ pc[t] = "rb_done"
    /\ Done(t, "EIO", "write_begin")
    /\ UNCHANGED <<allocVars, fileVars, ioVars, loc, locks, disk_index, disk_inode>>

\* file.c 622-624: mark_buffer_dirty, sync_dirty_buffer after the truncation
TrSync(t) ==
    /\ pc[t] = "tr_sync"
    /\ disk_index' = index[F]
    /\ SetLoc(t, [loc[t] EXCEPT !.index_written = TRUE])
    /\ Done(t, loc[t].len, "write")
    /\ UNCHANGED <<allocVars, fileVars, ioVars, locks, disk_inode>>

\* file.c 573-604: generic_write_end copies and sets i_size, i_blocks is
\* recomputed, lolelffs_write_inode flushes the inode; when the file shrank,
\* truncate_pagecache and the search for the first extent to free
WriteEndInode(t, ub) ==
    /\ pc[t] = "we_inode"
    /\ \E rec \in {lolelffs_write_end(AllocState, index[F], inode[F], loc[t].pos,
                                      loc[t].len, ub).rec} :
       \E shrink \in {inode[F].i_blocks > rec.i_blocks} :
       \E first0 \in {lolelffs_ext_search(index[F], rec.i_blocks - 1)} :
       \E part \in {IF loc[t].len = LOLELFFS_BLOCK_SIZE THEN "full" ELSE "lo"} :
       \E copied \in {[pages EXCEPT ![loc[t].iblock] =
                          page_after_copy(@, disk, loc[t].bno, part, "text")]} :
          /\ ub # NoUB => shrink /\ first0 = NoExtent
          /\ shrink => \A k \in PageBlocks :
                           k * LOLELFFS_BLOCK_SIZE >= rec.i_size => PageFree(t, k)
          /\ inode' = [inode EXCEPT ![F] = rec]
          /\ disk_inode' = [i_size |-> rec.i_size, i_blocks |-> rec.i_blocks]
          /\ pages' = IF shrink THEN pages_truncated(copied, rec.i_size) ELSE copied
          /\ ghost' = [ghost EXCEPT !.data[loc[t].iblock] =
                                        IF part = "full" THEN [lo |-> "text", hi |-> "text"]
                                        ELSE [@ EXCEPT ![part] = "text"],
                                    !.synced[loc[t].iblock] = FALSE]
          /\ IF ~shrink
             THEN /\ Done(t, loc[t].len, "write")
                  /\ SetLoc(t, [loc[t] EXCEPT !.inode_flushed = TRUE])
             ELSE \E first \in {IF first0 = NoExtent
                                THEN (IF ub = "differs" THEN 0 ELSE LOLELFFS_MAX_EXTENTS)
                                ELSE IF rec.i_blocks - 1 # index[F][first0].ee_block
                                THEN first0 + 1 ELSE first0} :
                     /\ SetLoc(t, [loc[t] EXCEPT !.inode_flushed = TRUE,
                                                 !.phase = "truncate",
                                                 !.extent = first])
                     /\ IF first0 = NoExtent /\ ub = "fault"
                        THEN Done(t, "OOPS", "write")
                        ELSE /\ SetPc(t, FreeLoopEntry(index[F], first, "truncate"))
                             /\ UNCHANGED <<ret, last>>
    /\ UNCHANGED <<allocVars, index, xindex, xdata, sbi, disk, rd, locks, disk_index>>

\* truncate(2) under i_rwsem; the pages it drops are not under write-back
StepSetSize(size) ==
    /\ \A t \in Threads : pc[t] = "idle" \/ loc[t].op # "write"
    /\ \A k \in PageBlocks : k * LOLELFFS_BLOCK_SIZE >= size => PageFree(0, k)
    /\ SetSize(F, size)

\* file.c 444-452, 250-300: folio_clear_dirty_for_io, then writepage_locked
\* finds the extent and the block; without compression and encryption
\* mpage_writepages writes the page to the block its buffer is mapped to
FlushBegin(t, iblock) ==
    /\ pc[t] = "idle"
    /\ pages[iblock].present /\ pages[iblock].dirty
    /\ PageFree(t, iblock)
    /\ pages' = [pages EXCEPT ![iblock].dirty = FALSE]
    /\ \E l \in {[NoLoc EXCEPT !.op = "writepage", !.iblock = iblock]} :
       \E e \in {ExtentOf(index[F], iblock)} :
          IF ~sbi.enc_enabled /\ ~sbi.comp_enabled
          THEN /\ disk' = [disk EXCEPT ![pages[iblock].bno] = Plain(pages[iblock].data)]
               /\ ghost' = [ghost EXCEPT !.synced[iblock] = TRUE]
               /\ Done(t, "OK", "writeback")
               /\ SetLoc(t, l)
          ELSE IF e.ee_start = 0
          THEN /\ Done(t, "EIO", "writeback")
               /\ SetLoc(t, l)
               /\ UNCHANGED <<disk, ghost>>
          ELSE /\ SetPc(t, "wp_store")
               /\ SetLoc(t, [l EXCEPT !.extent = lolelffs_ext_search(index[F], iblock),
                                      !.bno = e.ee_start + (iblock - e.ee_block)])
               /\ UNCHANGED <<disk, ghost, ret, last>>
    /\ UNCHANGED <<allocVars, fileVars, sbi, rd, locks, disk_index, disk_inode>>

\* what steps 1 and 2 of writepage_locked make of the page thread t writes
FlushPipeline(t) ==
    writepage_encrypt(sbi,
        IF sbi.enc_enabled THEN sbi.enc_default_algo ELSE LOLELFFS_ENC_NONE,
        loc[t].iblock,
        writepage_compress(IF sbi.comp_enabled THEN sbi.comp_default_algo
                           ELSE LOLELFFS_COMP_NONE,
                           Plain(pages[loc[t].iblock].data)))

\* whether the extent's codec fields differ from what was written
FlushMetaDiffers(e, w) ==
    \/ w.used_comp_algo # e.ee_comp_algo
    \/ w.used_enc_algo # e.ee_enc_algo
    \/ w.flags # e.ee_flags

\* file.c 302-376: compression, encryption, the block is written
FlushStore(t) ==
    /\ pc[t] = "wp_store"
    /\ \E w \in {FlushPipeline(t)} :
          IF w.ret # "OK"
          THEN /\ Done(t, w.ret, "writeback")
               /\ UNCHANGED <<disk, ghost>>
          ELSE /\ disk' = [disk EXCEPT ![loc[t].bno] = w.buf]
               /\ ghost' = [ghost EXCEPT !.synced[loc[t].iblock] = TRUE]
               /\ IF FlushMetaDiffers(index[F][loc[t].extent], w)
                  THEN SetPc(t, "wp_meta") /\ UNCHANGED <<ret, last>>
                  ELSE Done(t, "OK", "writeback")
    /\ UNCHANGED <<allocVars, fileVars, sbi, pages, rd, loc, locks, disk_index, disk_inode>>

\* file.c 378-384: the extent's codec fields are set in the index buffer
FlushMeta(t) ==
    /\ pc[t] = "wp_meta"
    /\ \E w \in {FlushPipeline(t)} :
          index' = [index EXCEPT ![F] =
                       writepage_store(index[F], loc[t].extent, loc[t].bno, w).idx]
    /\ SetPc(t, "wp_sync")
    /\ UNCHANGED <<allocVars, inode, xindex, xdata, ioVars, ret, last, loc, locks,
                   disk_index, disk_inode>>

\* file.c 385-387: mark_buffer_dirty, sync_dirty_buffer
FlushSync(t) ==
    /\ pc[t] = "wp_sync"
    /\ disk_index' = index[F]
    /\ Done(t, "OK", "writeback")
    /\ UNCHANGED <<allocVars, fileVars, ioVars, loc, locks, disk_inode>>

\* a mounted image with compression on or off and no encryption
InitSteps ==
    /\ InitFS
    /\ \E comp \in {LOLELFFS_COMP_NONE, LOLELFFS_COMP_LZ4} :
          sbi = [comp_enabled |-> comp # LOLELFFS_COMP_NONE, comp_default_algo |-> comp,
                 enc_enabled |-> FALSE, enc_default_algo |-> LOLELFFS_ENC_NONE,
                 enc_unlocked |-> FALSE, enc_master_key_decrypted |-> NoKey,
                 enc_available |-> TRUE]
    /\ disk = [b \in DataBlocks |-> Plain(ZeroData)]
    /\ pages = [k \in PageBlocks |-> NoPage]
    /\ ghost = [data |-> [k \in PageBlocks |-> Unwritten],
                synced |-> [k \in PageBlocks |-> FALSE], unlock_ok |-> FALSE,
                nr_writes |-> 0]
    /\ rd = NoRead
    /\ StepsIdle

StepBlocks == {0, MaxIOBlock + 1}
\* whole blocks, and half blocks whose read of the other half fails
StepWrites == {[len |-> LOLELFFS_BLOCK_SIZE, bwb_fail |-> FALSE],
               [len |-> LOLELFFS_BLOCK_SIZE \div 2, bwb_fail |-> TRUE]}

NextStepWrite ==
    \E t \in Threads :
        \/ \E iblock \in StepBlocks, w \in StepWrites :
              WriteBeginStart(t, iblock * LOLELFFS_BLOCK_SIZE, w.len, w.bwb_fail)
        \/ GbLock(t)
        \/ GbBits(t)
        \/ GbIndex(t)
        \/ GbSync(t)
        \/ RbDone(t)
        \/ \E ub \in UBChoice : WriteEndInode(t, ub)

NextStepFree ==
    \E t \in Threads :
        \/ FrLock(t)
        \/ FrBits(t)
        \/ FrClear(t)
        \/ TrSync(t)

NextStepFlush ==
    \E t \in Threads :
        \/ \E iblock \in PageBlocks : FlushBegin(t, iblock)
        \/ FlushStore(t)
        \/ FlushMeta(t)
        \/ FlushSync(t)

NextStepSetSize == StepSetSize(0)

NextSteps ==
    \/ CreateInode
    \/ NextStepWrite
    \/ NextStepFree
    \/ NextStepFlush
    \/ NextStepSetSize

SpecSteps == InitSteps /\ [][NextSteps]_vars

(***************************************************************************)
(* Allocation and freeing by two threads, each writing to a file of its    *)
(* own (i_rwsem admits one writer per inode; sbi->lock is held inside      *)
(* get_free_blocks and put_blocks only).  Thread t works on file t: the    *)
(* allocation branch of get_block takes a run from the bitmap and then     *)
(* enters it in the index; the freeing loops of write_begin's rollback and *)
(* of write_end's truncation call put_blocks for an extent and then zero   *)
(* its entry.  OwnDataBlocks blocks of the image are free at the start.    *)
(* ghost.held is the set of blocks that were allocated and not freed       *)
(* since.                                                                  *)
(***************************************************************************)
OwnFiles == Threads
OwnFirstData == NR_META_BLOCKS + Cardinality(OwnFiles)
OwnDataBlocks == 4
OwnLens == {1, 2}

OwnRun(bno, len) == bno .. (bno + len - 1)

InitOwn ==
    /\ ifree_bitmap = [i \in 0 .. (NR_INODES - 1) |-> FALSE]
    /\ nr_free_inodes = 0
    /\ bfree_bitmap = [b \in 0 .. (NR_BLOCKS - 1) |->
                          b >= OwnFirstData /\ b < OwnFirstData + OwnDataBlocks]
    /\ nr_free_blocks = OwnDataBlocks
    /\ inode = [f \in OwnFiles |->
                   [live |-> TRUE, i_size |-> 0, i_blocks |-> 0,
                    ei_block |-> NR_META_BLOCKS + f - 1, xattr_block |-> 0]]
    /\ index = [f \in OwnFiles |-> ZeroIndex]
    /\ xindex = [f \in OwnFiles |-> ZeroXattrIndex]
    /\ xdata = [f \in OwnFiles |-> <<>>]
    /\ ret = "OK"
    /\ last = [op |-> "mount", ino |-> 0, bno |-> 0, len |-> 0, fresh |-> TRUE]
    /\ sbi = [comp_enabled |-> FALSE, comp_default_algo |-> LOLELFFS_COMP_NONE,
              enc_enabled |-> FALSE, enc_default_algo |-> LOLELFFS_ENC_NONE,
              enc_unlocked |-> FALSE, enc_master_key_decrypted |-> NoKey,
              enc_available |-> TRUE]
    /\ disk = [b \in DataBlocks |-> Plain(ZeroData)]
    /\ pages = [k \in PageBlocks |-> NoPage]
    /\ ghost = [held |-> {}]
    /\ rd = NoRead
    /\ StepsIdle

OwnFrame == UNCHANGED <<inode, xindex, xdata, sbi, disk, pages, rd, locks, disk_index,
                        disk_inode>>

\* file.c 48-67: the slot is found, get_free_blocks takes the run under sbi->lock
OwnAllocBits(t, len) ==
    /\ pc[t] = "idle"
    /\ lolelffs_count_extents(index[t]) < LOLELFFS_MAX_EXTENTS
    /\ \E r \in {get_free_blocks(AllocState, len)} :
          /\ SetAlloc(r.a)
          /\ IF r.ret = 0
             THEN /\ ret' = "ENOSPC"
                  /\ last' = [op |-> "nospace", ino |-> t, bno |-> 0, len |-> len,
                              fresh |-> TRUE]
                  /\ UNCHANGED <<pc, loc, ghost>>
             ELSE /\ ret' = "OK"
                  /\ last' = [op |-> "alloc", ino |-> t, bno |-> r.ret, len |-> len,
                              fresh |-> OwnRun(r.ret, len) \cap ghost.held = {}]
                  /\ ghost' = [held |-> ghost.held \cup OwnRun(r.ret, len)]
                  /\ SetPc(t, "own_index")
                  /\ SetLoc(t, [NoLoc EXCEPT !.op = "write", !.bno = r.ret,
                                             !.alloc_size = len,
                                             !.extent = lolelffs_count_extents(index[t])])
    /\ UNCHANGED index
    /\ OwnFrame

\* file.c 69-75: the run is entered in the index
OwnAllocIndex(t) ==
    /\ pc[t] = "own_index"
    /\ index' = [index EXCEPT ![t] =
                    get_block_alloc(AllocState, index[t], 0, loc[t].extent,
                                    loc[t].alloc_size,
                                    [ret |-> loc[t].bno, a |-> AllocState]).idx]
    /\ SetPc(t, "idle")
    /\ SetLoc(t, NoLoc)
    /\ UNCHANGED <<allocVars, ret, last, ghost>>
    /\ OwnFrame

\* file.c 543, 618: a freeing loop starts at slot i
OwnFreeStart(t, i) ==
    /\ pc[t] = "idle"
    /\ index[t][i].ee_start # 0
    /\ SetPc(t, "own_put")
    /\ SetLoc(t, [NoLoc EXCEPT !.op = "write", !.extent = i])
    /\ UNCHANGED <<allocVars, index, ret, last, ghost>>
    /\ OwnFrame

\* file.c 544-547, 618-622: the end of the loop, or put_blocks under sbi->lock
OwnPut(t) ==
    /\ pc[t] = "own_put"
    /\ IF loc[t].extent >= LOLELFFS_MAX_EXTENTS \/ index[t][loc[t].extent].ee_start = 0
       THEN /\ SetPc(t, "idle")
            /\ SetLoc(t, NoLoc)
            /\ UNCHANGED <<allocVars, ret, last, ghost>>
       ELSE /\ SetAlloc(put_blocks(AllocState, index[t][loc[t].extent].ee_start,
                                   index[t][loc[t].extent].ee_len))
            /\ ghost' = [held |-> ghost.held
                                  \ OwnRun(index[t][loc[t].extent].ee_start,
                                           index[t][loc[t].extent].ee_len)]
            /\ ret' = "OK"
            /\ last' = [op |-> "put", ino |-> t,
                        bno |-> index[t][loc[t].extent].ee_start,
                        len |-> index[t][loc[t].extent].ee_len, fresh |-> TRUE]
            /\ SetPc(t, "own_clear")
            /\ UNCHANGED loc
    /\ UNCHANGED index
    /\ OwnFrame

\* file.c 548, 623: memset of the extent's entry, i++
OwnClear(t) ==
    /\ pc[t] = "own_clear"
    /\ index' = [index EXCEPT ![t][loc[t].extent] = ZeroExtent]
    /\ SetPc(t, "own_put")
    /\ SetLoc(t, [loc[t] EXCEPT !.extent = @ + 1])
    /\ UNCHANGED <<allocVars, ret, last, ghost>>
    /\ OwnFrame

NextOwn ==
    \E t \in Threads :
        \/ \E len \in OwnLens : OwnAllocBits(t, len)
        \/ OwnAllocIndex(t)
        \/ \E i \in Slots : OwnFreeStart(t, i)
        \/ OwnPut(t)
        \/ OwnClear(t)

SpecOwn == InitOwn /\ [][NextOwn]_vars

(***************************************************************************)
(* extent.c: lolelffs_ext_search on the index of a file laid out by the    *)
(* allocator: the image holds one file whose extents follow each other     *)
(* from logical block 0 and are stored behind its index block.             *)
(***************************************************************************)
RECURSIVE LenSum(_, _)
LenSum(lens, s) == IF s = 0 THEN 0 ELSE lens[s - 1] + LenSum(lens, s - 1)

\* the index of a file whose n extents have the lengths lens[0 .. n-1]
LaidOutIndex(lens, n) ==
    [s \in Slots |->
        IF s < n
        THEN [ZeroExtent EXCEPT !.ee_block = LenSum(lens, s), !.ee_len = lens[s],
                                !.ee_start = NR_META_BLOCKS + 1 + LenSum(lens, s)]
        ELSE ZeroExtent]

InitSearch ==
    /\ \E n \in 0 .. LOLELFFS_MAX_EXTENTS :
       \E lens \in [0 .. (n - 1) -> 1 .. LOLELFFS_MAX_BLOCKS_PER_EXTENT] :
          /\ NR_META_BLOCKS + 1 + LenSum(lens, n) <= NR_BLOCKS
          /\ index = [i \in Inos |-> IF i = F THEN LaidOutIndex(lens, n) ELSE ZeroIndex]
          /\ inode = [i \in Inos |->
                         IF i = F
                         THEN [live |-> TRUE,
                               i_size |-> LenSum(lens, n) * LOLELFFS_BLOCK_SIZE,
                               i_blocks |-> LenSum(lens, n) + 2,
                               ei_block |-> NR_META_BLOCKS, xattr_block |-> 0]
                         ELSE NoInode]
          /\ bfree_bitmap = [b \in 0 .. (NR_BLOCKS - 1) |->
                                b > NR_META_BLOCKS + LenSum(lens, n)]
          /\ nr_free_blocks = NR_BLOCKS - (NR_META_BLOCKS + 1 + LenSum(lens, n))
    /\ ifree_bitmap = [i \in 0 .. (NR_INODES - 1) |-> i \notin {0, F}]
    /\ nr_free_inodes = NR_INODES - 2
    /\ xindex = [i \in Inos |-> ZeroXattrIndex]
    /\ xdata = [i \in Inos |-> <<>>]
    /\ ret = "OK"
    /\ last = LastOp("none", FALSE)
    /\ IOIdle
    /\ StepsIdle

\* the lookup get_block, read_folio and writepage_locked start with
ExtSearch(iblock) ==
    /\ ret' = lolelffs_ext_search(index[F], iblock)
    /\ last' = LastOp("ext_search", FALSE)
    /\ rd' = [NoRead EXCEPT !.blk = iblock]
    /\ UNCHANGED <<allocVars, fileVars, sbi, disk, pages, ghost, stepVars>>

SearchBlocks == 0 .. (LOLELFFS_MAX_BLOCKS_PER_EXTENT * LOLELFFS_MAX_EXTENTS)

NextSearch == \E iblock \in SearchBlocks : ExtSearch(iblock)

SpecSearch == InitSearch /\ [][NextSearch]_vars

(***************************************************************************)
(* extent.c: lolelffs_ext_search_with_hint on the same indexes, for every  *)
(* block and every hint: a slot of the index, one behind the used prefix,  *)
(* one behind the index, or the (uint32_t)-1 a failed search returned.     *)
(***************************************************************************)
\* a hint test that only compares the block with the end of the extent
ext_search_with_hint_no_lower_bound(idx, iblock, hint) ==
    With(lolelffs_count_extents(idx), LAMBDA nr_extents :
        IF nr_extents = 0 THEN 0
        ELSE IF hint < nr_extents /\ iblock < idx[hint].ee_block + idx[hint].ee_len
        THEN hint
        ELSE IF /\ hint < nr_extents
                /\ hint + 1 < nr_extents
                /\ iblock < idx[hint + 1].ee_block + idx[hint + 1].ee_len
        THEN hint + 1
        ELSE lolelffs_ext_search(idx, iblock))

lolelffs_ext_search_with_hint(idx, iblock, hint) ==
    With(lolelffs_count_extents(idx), LAMBDA nr_extents :
        IF nr_extents = 0 THEN 0
        ELSE IF /\ hint < nr_extents
                /\ iblock >= idx[hint].ee_block
                /\ iblock < idx[hint].ee_block + idx[hint].ee_len
        THEN hint
        ELSE IF /\ hint < nr_extents
                /\ hint + 1 < nr_extents
                /\ iblock >= idx[hint + 1].ee_block
                /\ iblock < idx[hint + 1].ee_block + idx[hint + 1].ee_len
        THEN hint + 1
        ELSE lolelffs_ext_search(idx, iblock))

SearchHints == (0 .. (LOLELFFS_MAX_EXTENTS + 1)) \cup {NoExtent}

ExtSearchWithHint(iblock, hint) ==
    /\ ret' = lolelffs_ext_search_with_hint(index[F], iblock, hint)
    /\ last' = [op |-> "ext_search_with_hint", iblock |-> iblock, hint |-> hint]
    /\ rd' = [NoRead EXCEPT !.blk = iblock]
    /\ UNCHANGED <<allocVars, fileVars, sbi, disk, pages, ghost, stepVars>>

NextHint == \E iblock \in SearchBlocks, hint \in SearchHints : ExtSearchWithHint(iblock, hint)

SpecHint == InitSearch /\ [][NextHint]_vars

(***************************************************************************)
(* file.c: lolelffs_write_begin on its own, called for a file of any       *)
(* layout the allocator produces.                                          *)
(***************************************************************************)
LastWriteBegin(pos, len, alloc) ==
    [op |-> "write_begin", ino |-> F, alloc |-> alloc, trunc |-> FALSE, ub |-> FALSE,
     pos |-> pos, len |-> len]

WriteBegin(pos, len, bwb_fail) ==
    /\ \E wb \in {lolelffs_write_begin(AllocState, index[F], inode[F],
                                       pos, len, bwb_fail)} :
          /\ SetAlloc(wb.a)
          /\ index' = [index EXCEPT ![F] = wb.idx]
          /\ ret' = wb.ret
          /\ last' = LastWriteBegin(pos, len, wb.alloc)
    /\ UNCHANGED <<inode, xindex, xdata, ioVars, stepVars>>

NextWriteBegin ==
    \E pos \in WritePositions, len \in WriteLens, bwb_fail \in BOOLEAN :
        WriteBegin(pos, len, bwb_fail)

SpecWriteBegin == InitSearch /\ [][NextWriteBegin]_vars

(***************************************************************************)
(* The base offset of an embedded image (sbi->fs_offset, in blocks): what  *)
(* block of the backing device each access reads or writes.  The device    *)
(* holds fs_offset blocks of the enclosing file and then the image; the    *)
(* file F has one extent of OffsetFileBlocks blocks.  A block of the       *)
(* device holds a name for its content.                                    *)
(***************************************************************************)
OffsetBlocks == 6
OffsetFileBlocks == 3
FsOffsets == {0, 1, OffsetBlocks}
OffsetValues == {"text", "noise"}
OffsetFile == 0 .. (OffsetFileBlocks - 1)

\* sb_bread of the macro: NULL for a block the device does not have
LOLELFFS_SB_BREAD(s, dev, block) ==
    With(block + s.fs_offset, LAMBDA b :
        IF b \in DOMAIN dev THEN [ok |-> TRUE, addr |-> b, data |-> dev[b]]
        ELSE [ok |-> FALSE, addr |-> b, data |-> "none"])

\* the macro applied as each caller applies it
get_block_map_bh(s, bno) == bno + s.fs_offset
read_folio_bread(s, dev, phys_block) == LOLELFFS_SB_BREAD(s, dev, phys_block + s.fs_offset)
writepage_bread(s, dev, phys_block) == LOLELFFS_SB_BREAD(s, dev, phys_block)
index_bread(s, dev, ci) == LOLELFFS_SB_BREAD(s, dev, ci.ei_block)
iterate_bread(s, dev, e, bi) == LOLELFFS_SB_BREAD(s, dev, e.ee_start + bi)
xattr_bread(s, dev, ci) == LOLELFFS_SB_BREAD(s, dev, ci.xattr_block)

PhysOf(idx, iblock) ==
    ExtentOf(idx, iblock).ee_start + (iblock - ExtentOf(idx, iblock).ee_block)

InitOffset ==
    /\ \E fs_offset \in FsOffsets :
          /\ sbi = [comp_enabled |-> FALSE, comp_default_algo |-> LOLELFFS_COMP_NONE,
                    enc_enabled |-> FALSE, enc_default_algo |-> LOLELFFS_ENC_NONE,
                    enc_unlocked |-> FALSE, enc_master_key_decrypted |-> NoKey,
                    enc_available |-> TRUE, fs_offset |-> fs_offset]
          /\ disk = [b \in 0 .. (fs_offset + NR_BLOCKS - 1) |->
                        IF b < fs_offset THEN "elf" ELSE "zero"]
    /\ index = [i \in Inos |->
                   IF i = F THEN LaidOutIndex([s \in Slots |-> OffsetFileBlocks], 1)
                   ELSE ZeroIndex]
    /\ inode = [i \in Inos |->
                   IF i = F
                   THEN [live |-> TRUE, i_size |-> OffsetFileBlocks * LOLELFFS_BLOCK_SIZE,
                         i_blocks |-> OffsetFileBlocks + 2,
                         ei_block |-> NR_META_BLOCKS, xattr_block |-> NR_BLOCKS - 1]
                   ELSE NoInode]
    /\ bfree_bitmap = [b \in 0 .. (NR_BLOCKS - 1) |->
                          b > NR_META_BLOCKS + OffsetFileBlocks /\ b # NR_BLOCKS - 1]
    /\ nr_free_blocks = NR_BLOCKS - (NR_META_BLOCKS + 2 + OffsetFileBlocks)
    /\ ifree_bitmap = [i \in 0 .. (NR_INODES - 1) |-> i \notin {0, F}]
    /\ nr_free_inodes = NR_INODES - 2
    /\ xindex = [i \in Inos |-> ZeroXattrIndex]
    /\ xdata = [i \in Inos |-> <<>>]
    /\ ret = "OK"
    /\ last = [op |-> "mount", blk |-> 0, phys |-> 0, addr |-> 0]
    /\ pages = [k \in PageBlocks |-> NoPage]
    /\ ghost = [data |-> [k \in OffsetFile |-> "zero"]]
    /\ rd = [ok |-> TRUE, addr |-> 0, data |-> "none"]
    /\ StepsIdle

OffsetFrame == UNCHANGED <<allocVars, fileVars, sbi, pages, stepVars>>

\* lolelffs_file_get_block: the mapping handed to the block layer
OffsetGetBlock(iblock) ==
    /\ rd' = [ok |-> TRUE, addr |-> get_block_map_bh(sbi, PhysOf(index[F], iblock)),
              data |-> "none"]
    /\ last' = [op |-> "get_block", blk |-> iblock, phys |-> PhysOf(index[F], iblock),
                addr |-> rd'.addr]
    /\ ret' = "OK"
    /\ UNCHANGED <<disk, ghost>>
    /\ OffsetFrame

\* lolelffs_writepage_locked: the block the page is written to
OffsetWriteback(iblock, val) ==
    /\ \E bh \in {writepage_bread(sbi, disk, PhysOf(index[F], iblock))} :
          /\ rd' = bh
          /\ ret' = IF bh.ok THEN "OK" ELSE "EIO"
          /\ disk' = IF bh.ok THEN [disk EXCEPT ![bh.addr] = val] ELSE disk
          /\ ghost' = IF bh.ok THEN [ghost EXCEPT !.data[iblock] = val] ELSE ghost
          /\ last' = [op |-> "writeback", blk |-> iblock,
                      phys |-> PhysOf(index[F], iblock), addr |-> bh.addr]
    /\ OffsetFrame

\* lolelffs_read_folio with the page not cached: the block the page is read from
OffsetRead(iblock) ==
    /\ \E bh \in {read_folio_bread(sbi, disk, PhysOf(index[F], iblock))} :
          /\ rd' = bh
          /\ ret' = IF bh.ok THEN "OK" ELSE "EIO"
          /\ last' = [op |-> "read", blk |-> iblock, phys |-> PhysOf(index[F], iblock),
                      addr |-> bh.addr]
    /\ UNCHANGED <<disk, ghost>>
    /\ OffsetFrame

\* the reads of the index block, of a directory block and of the xattr block
OffsetMeta(kind, bi) ==
    /\ \E bh \in {CASE kind = "index" -> index_bread(sbi, disk, inode[F])
                    [] kind = "dir" -> iterate_bread(sbi, disk, index[F][0], bi)
                    [] kind = "xattr" -> xattr_bread(sbi, disk, inode[F])} :
          /\ rd' = bh
          /\ ret' = IF bh.ok THEN "OK" ELSE "EIO"
          /\ last' = [op |-> kind, blk |-> bi,
                      phys |-> CASE kind = "index" -> inode[F].ei_block
                                 [] kind = "dir" -> index[F][0].ee_start + bi
                                 [] kind = "xattr" -> inode[F].xattr_block,
                      addr |-> bh.addr]
    /\ UNCHANGED <<disk, ghost>>
    /\ OffsetFrame

NextOffset ==
    \/ \E iblock \in OffsetFile : OffsetGetBlock(iblock)
    \/ \E iblock \in OffsetFile, val \in OffsetValues : OffsetWriteback(iblock, val)
    \/ \E iblock \in OffsetFile : OffsetRead(iblock)
    \/ \E kind \in {"index", "dir", "xattr"}, bi \in OffsetFile : OffsetMeta(kind, bi)

SpecOffset == InitOffset /\ [][NextOffset]_vars

(***************************************************************************)
(* xattr.c: the attributes of one inode on their own, with two names, so   *)
(* that an attribute is set, replaced and removed while another one is     *)
(* stored before or behind it.                                             *)
(***************************************************************************)
\* lolelffs_xattr_read_data: the first ei->total_size bytes of the data blocks
lolelffs_xattr_read_data(xi, entries) == IF xi.total_size = 0 THEN <<>> ELSE entries

lolelffs_xattr_get(rec, xi, entries, name) ==
    IF rec.xattr_block = 0 THEN [ret |-> "ENODATA", value |-> NoValue]
    ELSE IF lolelffs_xattr_read_data(xi, entries) = <<>>
    THEN [ret |-> "ENODATA", value |-> NoValue]
    ELSE With(lolelffs_xattr_find_entry(lolelffs_xattr_read_data(xi, entries), name),
              LAMBDA k :
                 IF k = 0 THEN [ret |-> "ENODATA", value |-> NoValue]
                 ELSE [ret |-> "OK",
                       value |-> [len |-> entries[k].value_len, val |-> entries[k].value]])

\* removexattr is setxattr with a NULL value; found is the position the
\* name had in the list (0: it was not there)
XattrOp(ino, name, value, flags) ==
    /\ inode[ino].live
    /\ \E r \in {lolelffs_xattr_set(AllocState, inode[ino], xindex[ino], xdata[ino],
                                    name, value, flags, FALSE)} :
          /\ SetAlloc(r.a)
          /\ inode' = [inode EXCEPT ![ino] = r.rec]
          /\ xindex' = [xindex EXCEPT ![ino] = r.xi]
          /\ xdata' = [xdata EXCEPT ![ino] = r.entries]
          /\ ret' = r.ret
          /\ last' = [op |-> IF value = NoValue THEN "xattr_remove" ELSE "xattr_set",
                      ino |-> ino, alloc |-> r.a.nfb < nr_free_blocks, trunc |-> FALSE,
                      ub |-> FALSE, name |-> name,
                      found |-> lolelffs_xattr_find_entry(xdata[ino], name),
                      nr_before |-> Len(xdata[ino])]
          /\ U32(Len(r.entries) - r.xi.count) <= MaxCountDrift
    /\ UNCHANGED <<index, ioVars, stepVars>>

XattrNames == {"a", "b"}
XattrOps ==
    {<<name, v, 0>> : name \in XattrNames,
                      v \in {XattrValues.small, XattrValues.two_blocks, NoValue}}
    \cup {<<"a", XattrValues.many_blocks, XATTR_REPLACE>>}

NextXattrOp == \E ino \in Inos, in \in XattrOps : XattrOp(ino, in[1], in[2], in[3])

NextXattr ==
    \/ CreateInode
    \/ NextXattrOp

SpecXattr == Init /\ [][NextXattr]_vars

(***************************************************************************)
(* dir.c: lolelffs_iterate on the root directory.  A directory block is    *)
(* LOLELFFS_FILES_PER_BLOCK entries, each the inode number of a child (0:  *)
(* the entry is free).  The directory is filled as insertion fills it:     *)
(* entry n lies in extent n / FILES_PER_EXT, block (n % FILES_PER_EXT) /   *)
(* FILES_PER_BLOCK, slot n % FILES_PER_BLOCK, and removal compacts, so the *)
(* used entries are the first nr_files ones.  The consumer of a call (the  *)
(* actor behind dir_emit) accepts a number of entries and refuses the      *)
(* rest.                                                                   *)
(***************************************************************************)
LOLELFFS_FILES_PER_BLOCK == 2        \* 15 on disk
LOLELFFS_FILES_PER_EXT == LOLELFFS_FILES_PER_BLOCK * LOLELFFS_MAX_BLOCKS_PER_EXTENT
LOLELFFS_MAX_SUBFILES == LOLELFFS_FILES_PER_EXT * LOLELFFS_MAX_EXTENTS

ROOT == 0                            \* the directory iterated over
DirSlots == 0 .. (LOLELFFS_FILES_PER_BLOCK - 1)
DirBlocks ==
    NR_META_BLOCKS .. (NR_META_BLOCKS + LOLELFFS_MAX_BLOCKS_PER_EXTENT * LOLELFFS_MAX_EXTENTS - 1)

DirEntry(name, ino) == [name |-> name, ino |-> ino]

\* the index and the blocks of a directory that holds nr_files entries; the
\* child stored in entry n has inode number n + 1
DirIndex(nr_files) ==
    [s \in Slots |->
        IF s * LOLELFFS_FILES_PER_EXT < nr_files
        THEN [ZeroExtent EXCEPT !.ee_block = s * LOLELFFS_MAX_BLOCKS_PER_EXTENT,
                                !.ee_len = LOLELFFS_MAX_BLOCKS_PER_EXTENT,
                                !.ee_start = NR_META_BLOCKS
                                             + s * LOLELFFS_MAX_BLOCKS_PER_EXTENT]
        ELSE ZeroExtent]

DirDisk(nr_files) ==
    [b \in DirBlocks |->
        [fi \in DirSlots |->
            IF (b - NR_META_BLOCKS) * LOLELFFS_FILES_PER_BLOCK + fi < nr_files
            THEN (b - NR_META_BLOCKS) * LOLELFFS_FILES_PER_BLOCK + fi + 1
            ELSE 0]]

\* dir_emit_dots: "." at position 0, ".." at position 1
dir_emit_dots(c) ==
    IF c.pos = 0 /\ c.room = 0 THEN [c EXCEPT !.refused = TRUE]
    ELSE IF c.pos = 0 /\ c.room = 1
    THEN [c EXCEPT !.pos = 1, !.out = Append(@, DirEntry(".", ROOT)), !.room = 0,
                   !.refused = TRUE]
    ELSE IF c.pos = 0
    THEN [c EXCEPT !.pos = 2, !.room = @ - 2,
                   !.out = @ \o <<DirEntry(".", ROOT), DirEntry("..", ROOT)>>]
    ELSE IF c.pos = 1 /\ c.room = 0 THEN [c EXCEPT !.refused = TRUE]
    ELSE IF c.pos = 1
    THEN [c EXCEPT !.pos = 2, !.out = Append(@, DirEntry("..", ROOT)), !.room = @ - 1]
    ELSE c

\* the loop over the entries of one block; fi is left where the loop ends
RECURSIVE iterate_files(_, _)
iterate_files(dblock, c) ==
    IF c.fi >= LOLELFFS_FILES_PER_BLOCK THEN c
    ELSE IF dblock[c.fi] # 0 /\ c.room = 0 THEN [c EXCEPT !.refused = TRUE]
    ELSE iterate_files(dblock,
             [c EXCEPT !.fi = @ + 1, !.pos = @ + 1,
                       !.out = IF dblock[c.fi] # 0
                               THEN Append(@, DirEntry("file", dblock[c.fi])) ELSE @,
                       !.room = IF dblock[c.fi] # 0 THEN @ - 1 ELSE @])

\* the loop over the blocks of one extent; bi is left where the loop ends
RECURSIVE iterate_blocks(_, _, _)
iterate_blocks(dsk, e, c) ==
    IF c.bi >= e.ee_len THEN c
    ELSE IF dsk[e.ee_start + c.bi][0] = 0 THEN c
    ELSE iterate_blocks(dsk, e,
             [iterate_files(dsk[e.ee_start + c.bi], c) EXCEPT !.bi = @ + 1])

\* the loop over the extents that ends after the first one
iterate_first_extent(eblock, dsk, c) ==
    IF c.ei >= 1 THEN c
    ELSE IF eblock[c.ei].ee_start = 0 THEN c
    ELSE [iterate_blocks(dsk, eblock[c.ei], c) EXCEPT !.ei = @ + 1]

\* the loop over the extents
RECURSIVE iterate_extents(_, _, _)
iterate_extents(eblock, dsk, c) ==
    IF c.ei >= LOLELFFS_MAX_EXTENTS THEN c
    ELSE IF eblock[c.ei].ee_start = 0 THEN c
    ELSE iterate_extents(eblock, dsk,
             [iterate_blocks(dsk, eblock[c.ei], c) EXCEPT !.ei = @ + 1])

lolelffs_iterate(is_dir, eblock, dsk, pos, room) ==
    IF ~is_dir
    THEN [ret |-> "ENOTDIR", pos |-> pos, out |-> <<>>, refused |-> FALSE]
    ELSE IF pos > LOLELFFS_MAX_SUBFILES + 2
    THEN [ret |-> "OK", pos |-> pos, out |-> <<>>, refused |-> FALSE]
    ELSE With(dir_emit_dots([pos |-> pos, room |-> room, out |-> <<>>,
                             refused |-> FALSE, ei |-> 0, bi |-> 0, fi |-> 0]),
              LAMBDA d :
                 IF d.refused
                 THEN [ret |-> "OK", pos |-> d.pos, out |-> d.out, refused |-> TRUE]
                 ELSE With(iterate_extents(eblock, dsk,
                               [d EXCEPT
                                   !.ei = (d.pos - 2) \div LOLELFFS_FILES_PER_EXT,
                                   !.bi = ((d.pos - 2) % LOLELFFS_FILES_PER_EXT)
                                          \div LOLELFFS_FILES_PER_BLOCK,
                                   !.fi = (d.pos - 2) % LOLELFFS_FILES_PER_BLOCK]),
                           LAMBDA r : [ret |-> "OK", pos |-> r.pos, out |-> r.out,
                                       refused |-> r.refused]))

\* the directories: every number of entries
InitDir ==
    /\ \E nr_files \in 0 .. LOLELFFS_MAX_SUBFILES :
          /\ index = [i \in {ROOT} |-> DirIndex(nr_files)]
          /\ disk = DirDisk(nr_files)
          /\ ghost = [nr_files |-> nr_files, produced |-> <<>>, refused |-> FALSE]
    /\ ifree_bitmap = [i \in 0 .. (NR_INODES - 1) |-> i # ROOT]
    /\ bfree_bitmap = [b \in 0 .. (NR_BLOCKS - 1) |-> b >= NR_META_BLOCKS]
    /\ nr_free_inodes = NR_INODES - 1
    /\ nr_free_blocks = NR_BLOCKS - NR_META_BLOCKS
    /\ inode = [i \in Inos |-> NoInode]
    /\ xindex = [i \in Inos |-> ZeroXattrIndex]
    /\ xdata = [i \in Inos |-> <<>>]
    /\ ret = "OK"
    /\ last = [op |-> "opendir", ino |-> ROOT, room |-> 0, refused |-> FALSE, from |-> 0]
    /\ sbi = [comp_enabled |-> FALSE, comp_default_algo |-> LOLELFFS_COMP_NONE,
              enc_enabled |-> FALSE, enc_default_algo |-> LOLELFFS_ENC_NONE,
              enc_unlocked |-> FALSE, enc_master_key_decrypted |-> NoKey,
              enc_available |-> TRUE]
    /\ pages = [k \in PageBlocks |-> NoPage]
    /\ rd = [pos |-> 0, out |-> <<>>]
    /\ StepsIdle

\* one getdents call: rd.pos is ctx->pos of the open directory
Iterate(room) ==
    /\ \E r \in {lolelffs_iterate(TRUE, index[ROOT], disk, rd.pos, room)} :
          /\ rd' = [pos |-> r.pos, out |-> r.out]
          /\ ret' = r.ret
          /\ ghost' = [ghost EXCEPT !.produced = @ \o r.out,
                                    !.refused = @ \/ r.refused]
          /\ last' = [op |-> "iterate", ino |-> ROOT, room |-> room,
                      refused |-> r.refused, from |-> rd.pos]
    /\ UNCHANGED <<allocVars, fileVars, sbi, disk, pages, stepVars>>

\* what the consumer of one call accepts: nothing, a few entries, everything
Rooms == (0 .. (LOLELFFS_FILES_PER_BLOCK + 1)) \cup {LOLELFFS_MAX_SUBFILES + 2}

NextDir == \E room \in Rooms : Iterate(room)

SpecDir == InitDir /\ [][NextDir]_vars

(***************************************************************************)
(* mkfs.c and fsck.lolelffs.c on an image file, with the sizes of the      *)
(* on-disk format.  An image is its size (whole blocks and the bytes left  *)
(* over; st_size itself does not fit the integers of the checker) and what *)
(* mkfs writes into it.  A bitmap is written as a run of cleared (used)    *)
(* bits followed by set bits: zeros is the length of the run.              *)
(***************************************************************************)
LOLELFFS_MAGIC == 270409717
LOLELFFS_VERSION == 1
LOLELFFS_INODE_SIZE == 72
LOLELFFS_INODES_PER_BLOCK == LOLELFFS_BLOCK_SIZE \div LOLELFFS_INODE_SIZE
BITS_PER_BLOCK == LOLELFFS_BLOCK_SIZE * 8
MKFS_MIN_BLOCKS == 100
FSCK_MIN_BLOCKS == 100

idiv_ceil(a, b) == IF a % b # 0 THEN a \div b + 1 ELSE a \div b

RootPerms ==
    {"S_IRUSR", "S_IRGRP", "S_IROTH", "S_IWUSR", "S_IWGRP", "S_IXUSR", "S_IXGRP", "S_IXOTH"}

ZeroSb ==
    [magic |-> 0, nr_blocks |-> 0, nr_inodes |-> 0, nr_istore_blocks |-> 0,
     nr_ifree_blocks |-> 0, nr_bfree_blocks |-> 0, nr_free_inodes |-> 0,
     nr_free_blocks |-> 0, version |-> 0, comp_default_algo |-> LOLELFFS_COMP_NONE,
     comp_enabled |-> FALSE, enc_enabled |-> FALSE, enc_default_algo |-> LOLELFFS_ENC_NONE,
     enc_kdf_algo |-> "LOLELFFS_KDF_NONE"]

ZeroDiskInode ==
    [i_mode |-> [fmt |-> "none", perm |-> {}], i_size |-> 0, i_blocks |-> 0,
     i_nlink |-> 0, ei_block |-> 0, xattr_block |-> 0]

\* an image of zeros: every bit a bitmap of the format could hold is cleared
RawImage(size) ==
    [size |-> size, formatted |-> FALSE, sb |-> ZeroSb, root |-> ZeroDiskInode,
     ifree |-> [zeros |-> size.blocks + LOLELFFS_INODES_PER_BLOCK],
     bfree |-> [zeros |-> size.blocks + LOLELFFS_INODES_PER_BLOCK], nr_files |-> 0,
     root_index |-> ZeroIndex, file_index |-> ZeroIndex]

write_superblock(nr_blocks) ==
    With(IF nr_blocks % LOLELFFS_INODES_PER_BLOCK # 0
         THEN nr_blocks + LOLELFFS_INODES_PER_BLOCK
              - (nr_blocks % LOLELFFS_INODES_PER_BLOCK)
         ELSE nr_blocks,
         LAMBDA nr_inodes :
            [magic |-> LOLELFFS_MAGIC, nr_blocks |-> nr_blocks, nr_inodes |-> nr_inodes,
             nr_istore_blocks |-> idiv_ceil(nr_inodes, LOLELFFS_INODES_PER_BLOCK),
             nr_ifree_blocks |-> idiv_ceil(nr_inodes, BITS_PER_BLOCK),
             nr_bfree_blocks |-> idiv_ceil(nr_blocks, BITS_PER_BLOCK),
             nr_free_inodes |-> nr_inodes - 1,
             nr_free_blocks |-> nr_blocks - 1
                                - idiv_ceil(nr_inodes, LOLELFFS_INODES_PER_BLOCK)
                                - idiv_ceil(nr_inodes, BITS_PER_BLOCK)
                                - idiv_ceil(nr_blocks, BITS_PER_BLOCK) - 1,
             version |-> LOLELFFS_VERSION, comp_default_algo |-> LOLELFFS_COMP_LZ4,
             comp_enabled |-> TRUE, enc_enabled |-> FALSE,
             enc_default_algo |-> LOLELFFS_ENC_NONE,
             enc_kdf_algo |-> "LOLELFFS_KDF_ARGON2ID"])

write_inode_store(sb) ==
    [i_mode |-> [fmt |-> "S_IFDIR", perm |-> RootPerms], i_size |-> LOLELFFS_BLOCK_SIZE,
     i_blocks |-> 1, i_nlink |-> 2,
     ei_block |-> 1 + sb.nr_bfree_blocks + sb.nr_ifree_blocks + sb.nr_istore_blocks,
     xattr_block |-> 0]

write_ifree_blocks(sb) == [zeros |-> 1]

\* nr_used bits are cleared word by word in the one block buffer; more than
\* a block of them run over the end of the buffer
bfree_nr_used(sb) == sb.nr_istore_blocks + sb.nr_ifree_blocks + sb.nr_bfree_blocks + 2
bfree_overrun(sb) == bfree_nr_used(sb) > BITS_PER_BLOCK
write_bfree_blocks(sb) == [zeros |-> Min(bfree_nr_used(sb), BITS_PER_BLOCK)]

\* main of mkfs: crashed is what the overrun of write_bfree_blocks did
mkfs_main(img, crashed) ==
    IF img.size.blocks < MKFS_MIN_BLOCKS
       \/ (img.size.blocks = MKFS_MIN_BLOCKS /\ img.size.rem = 0)
    THEN [ret |-> "EXIT_FAILURE", img |-> img]
    ELSE With(write_superblock(img.size.blocks), LAMBDA sb :
            IF bfree_overrun(sb) /\ crashed
            THEN [ret |-> "SIGSEGV",
                  img |-> [img EXCEPT !.sb = sb, !.root = write_inode_store(sb),
                                      !.ifree = write_ifree_blocks(sb),
                                      !.formatted = FALSE]]
            ELSE [ret |-> "OK",
                  img |-> [img EXCEPT !.sb = sb, !.root = write_inode_store(sb),
                                      !.ifree = write_ifree_blocks(sb),
                                      !.bfree = write_bfree_blocks(sb),
                                      !.nr_files = 0, !.root_index = ZeroIndex,
                                      !.formatted = TRUE]])

\* the checks of fsck: each gives the number of errors it reports
check_superblock(sb) ==
    IF sb.magic # LOLELFFS_MAGIC THEN [fatal |-> TRUE, errors |-> 1]
    ELSE IF sb.nr_blocks < FSCK_MIN_BLOCKS THEN [fatal |-> TRUE, errors |-> 1]
    ELSE IF sb.nr_inodes = 0 THEN [fatal |-> TRUE, errors |-> 1]
    ELSE IF sb.version # LOLELFFS_VERSION THEN [fatal |-> TRUE, errors |-> 1]
    ELSE IF sb.comp_default_algo > LOLELFFS_COMP_MAX_ALGO THEN [fatal |-> TRUE, errors |-> 1]
    ELSE IF sb.enc_default_algo > LOLELFFS_ENC_MAX_ALGO THEN [fatal |-> TRUE, errors |-> 1]
    ELSE IF sb.enc_kdf_algo
            \notin {"LOLELFFS_KDF_NONE", "LOLELFFS_KDF_ARGON2ID", "LOLELFFS_KDF_PBKDF2"}
    THEN [fatal |-> TRUE, errors |-> 1]
    ELSE [fatal |-> FALSE,
          errors |->
              (IF sb.nr_istore_blocks # sb.nr_inodes \div LOLELFFS_INODES_PER_BLOCK
               THEN 1 ELSE 0)
              + (IF sb.nr_free_inodes > sb.nr_inodes THEN 1 ELSE 0)
              + (IF sb.nr_free_blocks > sb.nr_blocks THEN 1 ELSE 0)
              + (IF sb.nr_blocks - sb.nr_free_blocks
                    < 1 + sb.nr_istore_blocks + sb.nr_ifree_blocks + sb.nr_bfree_blocks
                 THEN 1 ELSE 0)]

check_root_inode(sb, root) ==
    IF root.i_mode.fmt # "S_IFDIR" THEN 1
    ELSE (IF root.i_nlink < 2 THEN 1 ELSE 0)
         + (IF root.i_blocks = 0 THEN 1 ELSE 0)
         + (IF root.ei_block < 1 + sb.nr_istore_blocks + sb.nr_ifree_blocks
                                 + sb.nr_bfree_blocks
               \/ root.ei_block >= sb.nr_blocks
            THEN 1 ELSE 0)

\* the errors and the warnings of one extent of the root's index block
check_extent(sb, e) ==
    (IF e.ee_len = 0 THEN 1 ELSE 0)
    + (IF e.ee_len > LOLELFFS_MAX_BLOCKS_PER_EXTENT THEN 1 ELSE 0)
    + (IF e.ee_start + e.ee_len > sb.nr_blocks THEN 1 ELSE 0)
    + (IF e.ee_comp_algo > LOLELFFS_COMP_MAX_ALGO THEN 1 ELSE 0)
    + (IF e.ee_enc_algo > LOLELFFS_ENC_MAX_ALGO THEN 1 ELSE 0)

warn_extent(e) ==
    (IF CompressedFlag(e) /\ e.ee_comp_algo = LOLELFFS_COMP_NONE THEN 1 ELSE 0)
    + (IF EncryptedFlag(e) /\ e.ee_enc_algo = LOLELFFS_ENC_NONE THEN 1 ELSE 0)

\* the loop over the extents: it ends at the first extent with ee_start 0
RECURSIVE check_extents_from(_, _, _, _)
check_extents_from(sb, eblock, i, found) ==
    IF i >= LOLELFFS_MAX_EXTENTS \/ eblock[i].ee_start = 0 THEN found
    ELSE check_extents_from(sb, eblock, i + 1,
                            [errors |-> found.errors + check_extent(sb, eblock[i]),
                             warnings |-> found.warnings + warn_extent(eblock[i])])

root_extents_checked(img) ==
    IF img.nr_files > 0
    THEN check_extents_from(img.sb, img.root_index, 0, [errors |-> 0, warnings |-> 0])
    ELSE [errors |-> 0, warnings |-> 0]

check_root_extent_block(img) ==
    (IF img.nr_files > LOLELFFS_MAX_SUBFILES THEN 1 ELSE 0)
    + root_extents_checked(img).errors

\* the warnings: of the superblock, of the root inode, of the root's extents
fsck_warnings(img) ==
    (IF img.sb.nr_inodes % LOLELFFS_INODES_PER_BLOCK # 0 THEN 1 ELSE 0)
    + (IF img.root.i_mode.fmt # "S_IFDIR" THEN 0
       ELSE (IF "S_IRUSR" \notin img.root.i_mode.perm THEN 1 ELSE 0)
            + (IF "S_IXUSR" \notin img.root.i_mode.perm THEN 1 ELSE 0)
            + (IF img.root.i_size # LOLELFFS_BLOCK_SIZE THEN 1 ELSE 0))
    + root_extents_checked(img).warnings

\* the set bits among the first nr bits of a bitmap
free_count(bitmap, nr) == nr - Min(bitmap.zeros, nr)

check_inode_bitmap(sb, ifree) ==
    (IF free_count(ifree, sb.nr_inodes) # sb.nr_free_inodes THEN 1 ELSE 0)
    + (IF ifree.zeros = 0 THEN 1 ELSE 0)

check_block_bitmap(sb, bfree) ==
    (IF free_count(bfree, sb.nr_blocks) # sb.nr_free_blocks THEN 1 ELSE 0)
    + (IF bfree.zeros = 0 THEN 1 ELSE 0)

fsck_main(img) ==
    With(check_superblock(img.sb), LAMBDA c :
        IF c.fatal THEN [errors |-> c.errors, warnings |-> 0]
        ELSE [errors |-> c.errors + check_root_inode(img.sb, img.root)
                         + check_root_extent_block(img)
                         + check_inode_bitmap(img.sb, img.ifree)
                         + check_block_bitmap(img.sb, img.bfree),
              warnings |-> fsck_warnings(img)])

\* the images: the sizes around the least size, with and without a part of
\* a block at the end, and sizes of 10 MB, 100 MB and of some gigabytes
MkfsSmallRange == 30
MkfsBlocks ==
    ((MKFS_MIN_BLOCKS - 2) .. (MKFS_MIN_BLOCKS + MkfsSmallRange))
    \cup {2560, 25600, 32769, 1828624, 1828625, 2097152}
ImageSizes == {[blocks |-> b, rem |-> r] : b \in MkfsBlocks, r \in {0, 1024}}

InitMkfs ==
    /\ \E size \in ImageSizes : disk = RawImage(size)
    /\ InitFS
    /\ sbi = [comp_enabled |-> FALSE, comp_default_algo |-> LOLELFFS_COMP_NONE,
              enc_enabled |-> FALSE, enc_default_algo |-> LOLELFFS_ENC_NONE,
              enc_unlocked |-> FALSE, enc_master_key_decrypted |-> NoKey,
              enc_available |-> TRUE]
    /\ pages = [k \in PageBlocks |-> NoPage]
    /\ ghost = [checked |-> FALSE]
    /\ rd = [errors |-> 0, warnings |-> 0]
    /\ StepsIdle

Mkfs(crashed) ==
    /\ \E m \in {mkfs_main(RawImage(disk.size), crashed)} :
          /\ disk' = m.img
          /\ ret' = m.ret
    /\ last' = [op |-> "mkfs", ino |-> ROOT, alloc |-> FALSE, trunc |-> FALSE, ub |-> crashed]
    /\ rd' = [errors |-> 0, warnings |-> 0]
    /\ ghost' = [checked |-> FALSE]
    /\ UNCHANGED <<allocVars, fileVars, sbi, pages, stepVars>>

Fsck ==
    /\ rd' = fsck_main(disk)
    /\ ret' = IF fsck_main(disk).errors > 0 THEN "EXIT_FAILURE" ELSE "OK"
    /\ last' = [op |-> "fsck", ino |-> ROOT, alloc |-> FALSE, trunc |-> FALSE, ub |-> FALSE]
    /\ ghost' = [checked |-> TRUE]
    /\ UNCHANGED <<allocVars, fileVars, sbi, disk, pages, stepVars>>

NextMkfs == \E crashed \in BOOLEAN : Mkfs(crashed)

NextFormat ==
    \/ NextMkfs
    \/ Fsck

SpecMkfs == InitMkfs /\ [][NextFormat]_vars

(***************************************************************************)
(* fsck on images that hold files.  The images are what mkfs writes for    *)
(* an image of FsckImageBlocks blocks, with one more inode in use (inode   *)
(* 1, a file), the root directory holding nr_files entries, and the first  *)
(* extent of the root's index block and of the file's index block drawn    *)
(* from extents that are sound and extents that are not.  The bitmaps and  *)
(* the counters of the image agree, so what fsck reports is what it finds  *)
(* in the extents.                                                         *)
(***************************************************************************)
FsckImageBlocks == 2560
FsckUsedData == 6
UnknownAlgo == 7

FsckBase == mkfs_main(RawImage([blocks |-> FsckImageBlocks, rem |-> 0]), FALSE).img
FsckGoodStart == FsckBase.root.ei_block + 2

FsckExtent(start, len, comp, enc, flags) ==
    [ee_block |-> 0, ee_len |-> len, ee_start |-> start, ee_comp_algo |-> comp,
     ee_enc_algo |-> enc, ee_flags |-> flags]

FsckExtents ==
    {FsckExtent(start, len, comp, enc, flags) :
        start \in {FsckGoodStart, FsckImageBlocks - 1, FsckImageBlocks},
        len \in {1, 2},
        comp \in {LOLELFFS_COMP_NONE, LOLELFFS_COMP_LZ4, UnknownAlgo},
        enc \in {LOLELFFS_ENC_NONE, LOLELFFS_ENC_AES256_XTS, UnknownAlgo},
        flags \in {0, LOLELFFS_EXT_COMPRESSED, LOLELFFS_EXT_ENCRYPTED}}

FsckFileExtents ==
    {FsckExtent(FsckGoodStart + 2, 1, LOLELFFS_COMP_NONE, LOLELFFS_ENC_NONE, 0),
     FsckExtent(FsckGoodStart + 2, 1, UnknownAlgo, LOLELFFS_ENC_NONE, 0),
     FsckExtent(FsckGoodStart + 2, 1, LOLELFFS_COMP_NONE, UnknownAlgo, 0),
     FsckExtent(FsckGoodStart + 2, 1, LOLELFFS_COMP_NONE, LOLELFFS_ENC_NONE,
                LOLELFFS_EXT_COMPRESSED),
     FsckExtent(FsckImageBlocks, 2, LOLELFFS_COMP_NONE, LOLELFFS_ENC_NONE, 0)}

FsckImage(nr_files, root_extent, file_extent) ==
    [FsckBase EXCEPT
        !.nr_files = nr_files,
        !.root_index = [ZeroIndex EXCEPT ![0] = root_extent],
        !.file_index = [ZeroIndex EXCEPT ![0] = file_extent],
        !.ifree = [zeros |-> 2],
        !.bfree = [zeros |-> FsckBase.bfree.zeros + FsckUsedData],
        !.sb = [FsckBase.sb EXCEPT !.nr_free_inodes = @ - 1,
                                   !.nr_free_blocks = @ - FsckUsedData]]

InitFsck ==
    /\ \E nr_files \in {0, 1}, root_extent \in FsckExtents \cup {ZeroExtent},
          file_extent \in FsckFileExtents :
          disk = FsckImage(nr_files, root_extent, file_extent)
    /\ InitFS
    /\ sbi = [comp_enabled |-> FALSE, comp_default_algo |-> LOLELFFS_COMP_NONE,
              enc_enabled |-> FALSE, enc_default_algo |-> LOLELFFS_ENC_NONE,
              enc_unlocked |-> FALSE, enc_master_key_decrypted |-> NoKey,
              enc_available |-> TRUE]
    /\ pages = [k \in PageBlocks |-> NoPage]
    /\ ghost = [checked |-> FALSE]
    /\ rd = [errors |-> 0, warnings |-> 0]
    /\ StepsIdle

SpecFsck == InitFsck /\ [][Fsck]_vars

(***************************************************************************)
(* bitmap.h: the allocator on its own.  The bitmaps are drawn from every   *)
(* pattern of free data blocks and free inodes (the metadata blocks and    *)
(* the root inode are in use), with the counters matching; blocks are      *)
(* requested and freed as the callers do, and frees are also tried with    *)
(* ranges that leave the bitmap.                                           *)
(***************************************************************************)
LastAlloc(op, bno, len) ==
    [op |-> op, ino |-> 0, alloc |-> FALSE, trunc |-> FALSE, ub |-> FALSE,
     bno |-> bno, len |-> len]

InitAlloc ==
    /\ bfree_bitmap \in [0 .. (NR_BLOCKS - 1) -> BOOLEAN]
    /\ \A b \in 0 .. (NR_META_BLOCKS - 1) : ~bfree_bitmap[b]
    /\ ifree_bitmap \in [0 .. (NR_INODES - 1) -> BOOLEAN]
    /\ ~ifree_bitmap[0]
    /\ nr_free_blocks = Cardinality({b \in DOMAIN bfree_bitmap : bfree_bitmap[b]})
    /\ nr_free_inodes = Cardinality({i \in DOMAIN ifree_bitmap : ifree_bitmap[i]})
    /\ inode = [i \in Inos |-> NoInode]
    /\ index = [i \in Inos |-> ZeroIndex]
    /\ xindex = [i \in Inos |-> ZeroXattrIndex]
    /\ xdata = [i \in Inos |-> <<>>]
    /\ ret = 0
    /\ last = LastAlloc("none", 0, 0)
    /\ IOIdle
    /\ StepsIdle

\* the bits bno .. bno + len - 1 lie in a bitmap of size bits
InBitmap(size, bno, len) == bno + len <= size

AllocBlocks(len) ==
    /\ \E r \in {get_free_blocks(AllocState, len)} :
          /\ SetAlloc(r.a)
          /\ ret' = r.ret
    /\ last' = LastAlloc("get_free_blocks", 0, len)
    /\ UNCHANGED <<fileVars, ioVars, stepVars>>

AllocInode ==
    /\ \E r \in {get_free_inode(AllocState)} :
          /\ SetAlloc(r.a)
          /\ ret' = r.ret
    /\ last' = LastAlloc("get_free_inode", 0, 1)
    /\ UNCHANGED <<fileVars, ioVars, stepVars>>

\* put_blocks of blocks in use, or of a range that leaves the bitmap (tried
\* only while the counter has not drifted from the bitmap)
FreeBlocks(bno, len) ==
    /\ \/ /\ InBitmap(NR_BLOCKS, bno, len)
          /\ \A b \in bno .. (bno + len - 1) : b >= NR_META_BLOCKS /\ ~bfree_bitmap[b]
       \/ /\ ~InBitmap(NR_BLOCKS, bno, len)
          /\ nr_free_blocks = Cardinality({b \in DOMAIN bfree_bitmap : bfree_bitmap[b]})
    /\ SetAlloc(put_blocks(AllocState, bno, len))
    /\ ret' = 0
    /\ last' = LastAlloc("put_blocks", bno, len)
    /\ UNCHANGED <<fileVars, ioVars, stepVars>>

PutInode(ino) ==
    /\ \/ InBitmap(NR_INODES, ino, 1) /\ ino # 0 /\ ~ifree_bitmap[ino]
       \/ /\ ~InBitmap(NR_INODES, ino, 1)
          /\ nr_free_inodes = Cardinality({i \in DOMAIN ifree_bitmap : ifree_bitmap[i]})
    /\ SetAlloc(put_inode(AllocState, ino))
    /\ ret' = 0
    /\ last' = LastAlloc("put_inode", ino, 1)
    /\ UNCHANGED <<fileVars, ioVars, stepVars>>

AllocLens == 1 .. LOLELFFS_MAX_BLOCKS_PER_EXTENT
FreeStarts == NR_META_BLOCKS .. (NR_BLOCKS + 1)
FreeLens == 1 .. 2
PutInos == 1 .. (NR_INODES + 1)

NextAllocBlocks == \E len \in AllocLens : AllocBlocks(len)
NextFreeBlocks == \E bno \in FreeStarts, len \in FreeLens : FreeBlocks(bno, len)
NextPutInode == \E ino \in PutInos : PutInode(ino)

NextAlloc ==
    \/ NextAllocBlocks
    \/ AllocInode
    \/ NextFreeBlocks
    \/ NextPutInode

SpecAlloc == InitAlloc /\ [][NextAlloc]_vars

(***************************************************************************)
(* file.c: lolelffs_file_get_block on its own.  The image holds one file   *)
(* with an empty index; the other data blocks are free or in use in every  *)
(* pattern, inode->i_blocks is the value an earlier write_end left, and    *)
(* the superblock's default codecs are those of mkfs or of a compressing   *)
(* or encrypting mount.                                                    *)
(***************************************************************************)
max_extent_blocks == LOLELFFS_MAX_BLOCKS_PER_EXTENT

LastGetBlock(alloc, bno, create) ==
    [op |-> "get_block", ino |-> F, alloc |-> alloc, trunc |-> FALSE, ub |-> FALSE,
     bno |-> bno, create |-> create]

ExtentFileBlocks ==
    {0, SMALL_FILE_BLOCKS - 1, SMALL_FILE_BLOCKS, MEDIUM_FILE_BLOCKS - 1, MEDIUM_FILE_BLOCKS}
ExtentCodecs ==
    {<<LOLELFFS_COMP_NONE, LOLELFFS_ENC_NONE>>, <<LOLELFFS_COMP_LZ4, LOLELFFS_ENC_NONE>>,
     <<LOLELFFS_COMP_NONE, LOLELFFS_ENC_AES256_XTS>>}

InitExtent ==
    /\ bfree_bitmap \in [0 .. (NR_BLOCKS - 1) -> BOOLEAN]
    /\ \A b \in 0 .. NR_META_BLOCKS : ~bfree_bitmap[b]
    /\ nr_free_blocks = Cardinality({b \in DOMAIN bfree_bitmap : bfree_bitmap[b]})
    /\ ifree_bitmap = [i \in 0 .. (NR_INODES - 1) |-> i \notin {0, F}]
    /\ nr_free_inodes = NR_INODES - 2
    /\ \E i_blocks \in ExtentFileBlocks :
          inode = [i \in Inos |->
                      IF i = F
                      THEN [live |-> TRUE,
                            i_size |-> IF i_blocks < 2 THEN 0
                                       ELSE (i_blocks - 2) * LOLELFFS_BLOCK_SIZE,
                            i_blocks |-> i_blocks,
                            ei_block |-> NR_META_BLOCKS, xattr_block |-> 0]
                      ELSE NoInode]
    /\ index = [i \in Inos |-> ZeroIndex]
    /\ xindex = [i \in Inos |-> ZeroXattrIndex]
    /\ xdata = [i \in Inos |-> <<>>]
    /\ ret = "OK"
    /\ last = LastOp("none", FALSE)
    /\ \E codec \in ExtentCodecs :
          sbi = [comp_enabled |-> codec[1] # LOLELFFS_COMP_NONE,
                 comp_default_algo |-> codec[1],
                 enc_enabled |-> codec[2] # LOLELFFS_ENC_NONE,
                 enc_default_algo |-> codec[2],
                 enc_unlocked |-> FALSE, enc_master_key_decrypted |-> NoKey,
                 enc_available |-> TRUE]
    /\ disk = [b \in DataBlocks |-> Plain(ZeroData)]
    /\ pages = [k \in PageBlocks |-> NoPage]
    /\ ghost = [data |-> [k \in PageBlocks |-> Unwritten],
                synced |-> [k \in PageBlocks |-> FALSE], unlock_ok |-> FALSE,
                nr_writes |-> 0]
    /\ rd = NoRead
    /\ StepsIdle

\* lolelffs_file_get_block(inode, iblock, bh_result, create); the index block is
\* synced when an extent was allocated
GetBlock(iblock, create) ==
    /\ \E r \in {lolelffs_file_get_block(AllocState, index[F], inode[F].i_blocks,
                                         iblock, create)} :
          /\ SetAlloc(r.a)
          /\ index' = [index EXCEPT ![F] = r.idx]
          /\ disk_index' = IF r.alloc THEN r.idx ELSE disk_index
          /\ ret' = r.ret
          /\ last' = LastGetBlock(r.alloc, r.bno, create)
    /\ rd' = [NoRead EXCEPT !.blk = iblock]
    /\ UNCHANGED <<inode, xindex, xdata, sbi, disk, pages, ghost, pc, loc, locks,
                   disk_inode>>

NextExtent == \E iblock \in SearchBlocks, create \in BOOLEAN : GetBlock(iblock, create)

SpecExtent == InitExtent /\ [][NextExtent]_vars

(***************************************************************************)
(* Reachability of blocks from live inodes.                                *)
(***************************************************************************)
idx_used(idx, s) == idx[s].ee_start # 0

BitCount(freemap) == Cardinality({b \in DOMAIN freemap : freemap[b]})

ExtentBlocks(e) == IF e.ee_start = 0 THEN {} ELSE e.ee_start .. (e.ee_start + e.ee_len - 1)

InodeBlocks(ino) ==
    IF ~inode[ino].live THEN {}
    ELSE {inode[ino].ei_block}
         \cup UNION {ExtentBlocks(index[ino][s]) : s \in Slots}
         \cup (IF inode[ino].xattr_block = 0 THEN {}
               ELSE {inode[ino].xattr_block} \cup ExtentBlocks(xindex[ino]))

MetaBlocks == 0 .. (NR_META_BLOCKS - 1)
ReferencedBlocks == MetaBlocks \cup UNION {InodeBlocks(ino) : ino \in Inos}
UsedBlocks == {b \in DOMAIN bfree_bitmap : ~bfree_bitmap[b]}

UsedInodes == {i \in DOMAIN ifree_bitmap : ~ifree_bitmap[i]}
LiveInodes == {0} \cup {ino \in Inos : inode[ino].live}
NrExtents(ino) == lolelffs_count_extents(index[ino])

(***************************************************************************)
(* C1: at every quiescent point the number of set bits of the inode bitmap *)
(* equals nr_free_inodes and the number of set bits of the block bitmap    *)
(* equals nr_free_blocks, whatever operations ran before (failed           *)
(* allocations, write_begin rollbacks, truncations, xattr replacement).    *)
(***************************************************************************)
C1_FreeCountIdentity ==
    /\ BitCount(ifree_bitmap) = nr_free_inodes
    /\ BitCount(bfree_bitmap) = nr_free_blocks

\* C1's case: write_begin allocated an extent and rolled it back
C1_Witness ==
    /\ last.op = "write_begin"
    /\ last.alloc
    /\ ret = "EIO"
    /\ nr_free_blocks < NR_BLOCKS - NR_META_BLOCKS

(***************************************************************************)
(* C2: the used extents of a file's index are a prefix of the slots, they  *)
(* are ordered and contiguous from logical block 0, each has a nonzero     *)
(* ee_start inside the data region and 1 <= ee_len <= max_extent_blocks.   *)
(***************************************************************************)
ExtentWellFormed(idx, s) ==
    LET e == idx[s]
    IN /\ e.ee_start >= NR_META_BLOCKS
       /\ e.ee_start + e.ee_len <= NR_BLOCKS
       /\ e.ee_len >= 1
       /\ e.ee_len <= LOLELFFS_MAX_BLOCKS_PER_EXTENT
       /\ e.ee_block = (IF s = 0 THEN 0 ELSE idx[s - 1].ee_block + idx[s - 1].ee_len)

C2_ExtentIndexWellFormed ==
    \A ino \in Inos :
        inode[ino].live =>
            \A s \in Slots :
                IF idx_used(index[ino], s)
                THEN /\ \A t \in Slots : t < s => idx_used(index[ino], t)
                     /\ ExtentWellFormed(index[ino], s)
                ELSE TRUE

\* C2's case: a truncating write kept a prefix of several extents
C2_Witness ==
    \E ino \in Inos :
        /\ inode[ino].live
        /\ last.op = "write" /\ last.trunc /\ ~last.ub
        /\ NrExtents(ino) >= 2
        /\ NrExtents(ino) < LOLELFFS_MAX_EXTENTS

C12_ExtSearch ==
    last.op = "ext_search" =>
        /\ C2_ExtentIndexWellFormed
        /\ \A s \in Slots :
              (/\ idx_used(index[F], s)
               /\ rd.blk >= index[F][s].ee_block
               /\ rd.blk < index[F][s].ee_block + index[F][s].ee_len) => ret = s
        /\ (\A s \in Slots :
               idx_used(index[F], s) => rd.blk >= index[F][s].ee_block + index[F][s].ee_len)
              => ret = IF NrExtents(F) < LOLELFFS_MAX_EXTENTS THEN NrExtents(F)
                       ELSE NoExtent

\* C12's case: a block beyond the extents of a full index was looked up
C12_Witness ==
    /\ last.op = "ext_search"
    /\ NrExtents(F) = LOLELFFS_MAX_EXTENTS
    /\ ret = NoExtent

\* freemap holds a run of len free bits that starts at bit s
FreeRunAt(freemap, s, len) ==
    \A b \in s .. (s + len - 1) : b \in DOMAIN freemap /\ freemap[b]

(***************************************************************************)
(* C13: alloc_blocks(len) returns the start of the lowest-addressed run of *)
(* len consecutive free bits of the block bitmap (alloc_inode the lowest   *)
(* free inode index), clears exactly those bits and no others, and         *)
(* decrements the matching free counter by exactly the number of bits      *)
(* cleared.                                                                *)
(***************************************************************************)
C13_LowestRunAllocated ==
    [][/\ (last'.op = "get_free_blocks" /\ ret' # 0)
           => /\ FreeRunAt(bfree_bitmap, ret', last'.len)
              /\ \A s \in 0 .. (ret' - 1) : ~FreeRunAt(bfree_bitmap, s, last'.len)
              /\ bfree_bitmap' = [b \in DOMAIN bfree_bitmap |->
                                     bfree_bitmap[b]
                                     /\ ~(b >= ret' /\ b < ret' + last'.len)]
              /\ nr_free_blocks' = nr_free_blocks - last'.len
              /\ ifree_bitmap' = ifree_bitmap /\ nr_free_inodes' = nr_free_inodes
       /\ (last'.op = "get_free_inode" /\ ret' # 0)
           => /\ ifree_bitmap[ret']
              /\ \A i \in 0 .. (ret' - 1) : ~ifree_bitmap[i]
              /\ ifree_bitmap' = [ifree_bitmap EXCEPT ![ret'] = FALSE]
              /\ nr_free_inodes' = nr_free_inodes - 1
              /\ bfree_bitmap' = bfree_bitmap /\ nr_free_blocks' = nr_free_blocks]_vars

\* C13's case: the run was found behind free bits that were too few to hold it
C13_Witness ==
    /\ last.op = "get_free_blocks"
    /\ last.len >= 2
    /\ ret # 0
    /\ \E b \in 0 .. (ret - 1) : bfree_bitmap[b]

(***************************************************************************)
(* C14: an allocation request fails with no-space exactly when the bitmap  *)
(* holds no run of the requested number of consecutive free bits; a failed *)
(* allocation clears no bit and changes no free counter, and a successful  *)
(* allocation is never reported to the caller as a failure.                *)
(***************************************************************************)
C14_NoSpaceExactly ==
    [][/\ last'.op = "get_free_blocks"
           => /\ ret' = 0 <=> ~\E s \in DOMAIN bfree_bitmap :
                                   FreeRunAt(bfree_bitmap, s, last'.len)
              /\ ret' = 0 => /\ bfree_bitmap' = bfree_bitmap
                             /\ nr_free_blocks' = nr_free_blocks
              /\ get_block_alloc(AllocState, ZeroIndex, 0, 0, last'.len,
                                 [ret |-> ret', a |-> AllocState]).ret
                     = (IF ret' = 0 THEN "ENOSPC" ELSE "OK")
       /\ last'.op = "get_free_inode"
           => /\ ret' = 0 <=> ~\E i \in DOMAIN ifree_bitmap : ifree_bitmap[i]
              /\ ret' = 0 => /\ ifree_bitmap' = ifree_bitmap
                             /\ nr_free_inodes' = nr_free_inodes]_vars

\* C14's case: the request failed although as many bits were free, in
\* shorter runs
C14_Witness ==
    /\ last.op = "get_free_blocks"
    /\ ret = 0
    /\ nr_free_blocks >= last.len

(***************************************************************************)
(* C15: free_blocks(first, len) and free_inode(ino) whose range is not     *)
(* entirely inside the bitmap set no bit and leave the free counters       *)
(* unchanged.                                                              *)
(***************************************************************************)
C15_OutOfRangeFreeIgnored ==
    [][/\ (last'.op = "put_blocks" /\ ~InBitmap(NR_BLOCKS, last'.bno, last'.len))
           => bfree_bitmap' = bfree_bitmap /\ nr_free_blocks' = nr_free_blocks
       /\ (last'.op = "put_inode" /\ ~InBitmap(NR_INODES, last'.bno, 1))
           => ifree_bitmap' = ifree_bitmap /\ nr_free_inodes' = nr_free_inodes]_vars

(***************************************************************************)
(* C16: the length of every newly allocated extent is the adaptive run for *)
(* the file's current block count: 2 while the file has fewer than 8       *)
(* blocks, 4 while it has fewer than 32, the superblock's                  *)
(* max_extent_blocks from then on, clamped to the number of free blocks    *)
(* and at least 1.                                                         *)
(***************************************************************************)
OptimalRun(current_blocks, free) ==
    LET want == IF current_blocks < 8 THEN 2
                ELSE IF current_blocks < 32 THEN 4
                ELSE max_extent_blocks
        clamped == IF want > free THEN free ELSE want
    IN IF clamped < 1 THEN 1 ELSE clamped

InExtent(e, iblock) ==
    e.ee_start # 0 /\ e.ee_block <= iblock /\ iblock < e.ee_block + e.ee_len

AppendedExtent(n, old, new, free_before, free_after) ==
    /\ n < LOLELFFS_MAX_EXTENTS
    /\ \A s \in Slots \ {n} : new[s] = old[s]
    /\ new[n].ee_start # 0
    /\ new[n].ee_block = IF n = 0 THEN 0 ELSE old[n - 1].ee_block + old[n - 1].ee_len
    /\ new[n].ee_len >= 1
    /\ \A b \in DOMAIN free_before :
          IF new[n].ee_start <= b /\ b < new[n].ee_start + new[n].ee_len
          THEN free_before[b] /\ ~free_after[b]
          ELSE free_after[b] = free_before[b]

C17_AllocateFor ==
    [][(last'.op = "get_block" /\ last'.create /\ ret' = "OK") =>
          IF \E s \in Slots : InExtent(index[F][s], rd'.blk)
          THEN /\ \E s \in Slots :
                     /\ InExtent(index[F][s], rd'.blk)
                     /\ last'.bno = index[F][s].ee_start + rd'.blk - index[F][s].ee_block
               /\ UNCHANGED <<index, allocVars, disk_index>>
          ELSE /\ AppendedExtent(NrExtents(F), index[F], index'[F],
                                 bfree_bitmap, bfree_bitmap')
               /\ nr_free_blocks' = nr_free_blocks - index'[F][NrExtents(F)].ee_len
               /\ index'[F][NrExtents(F)].ee_comp_algo = sbi.comp_default_algo
               /\ index'[F][NrExtents(F)].ee_enc_algo = sbi.enc_default_algo
               /\ disk_index' = index'[F]]_vars

(***************************************************************************)
(* C18: the truncation of write_end, for the new block count i_blocks,     *)
(* frees the blocks of and zeroes the entry of every extent from the one   *)
(* that covers logical block i_blocks - 1 on, each block going back to the *)
(* bitmap exactly once; the extents before it keep their entries and       *)
(* their blocks.                                                           *)
(***************************************************************************)
TailFreed(old, new, c, free_before, free_after, count_before, count_after) ==
    /\ \A s \in Slots :
          idx_used(old, s) =>
             IF s >= c
             THEN /\ new[s] = ZeroExtent
                  /\ \A b \in ExtentBlocks(old[s]) : ~free_before[b] /\ free_after[b]
             ELSE /\ new[s] = old[s]
                  /\ \A b \in ExtentBlocks(old[s]) : ~free_after[b]
    /\ count_after = count_before +
          Cardinality(UNION {ExtentBlocks(old[s]) : s \in {u \in Slots : u >= c /\ idx_used(old, u)}})

C18_TruncateFreesTail ==
    [][(last'.op = "write" /\ last'.trunc /\ ~last'.alloc) =>
          \A c \in Slots :
             InExtent(index[last'.ino][c], inode'[last'.ino].i_blocks - 1) =>
                 TailFreed(index[last'.ino], index'[last'.ino], c,
                           bfree_bitmap, bfree_bitmap', nr_free_blocks, nr_free_blocks')]_vars

(***************************************************************************)
(* C18, as the code does it: the truncation frees and zeroes every extent  *)
(* from the one that starts at logical block i_blocks - 1 on, or, when the *)
(* extent covering that block starts before it, from the extent after it:  *)
(* the covering extent is then kept.  Each freed block goes back to the    *)
(* bitmap exactly once, and the extents before the first freed one keep    *)
(* their entries and their blocks.                                         *)
(***************************************************************************)
FirstFreed(e, c, new_block_count) ==
    IF new_block_count - 1 # e.ee_block THEN c + 1 ELSE c

C18_TruncateKeepsCoveringExtent ==
    [][(last'.op = "write" /\ last'.trunc /\ ~last'.alloc) =>
          \A c \in Slots :
             InExtent(index[last'.ino][c], inode'[last'.ino].i_blocks - 1) =>
                 TailFreed(index[last'.ino], index'[last'.ino],
                           FirstFreed(index[last'.ino][c], c, inode'[last'.ino].i_blocks),
                           bfree_bitmap, bfree_bitmap', nr_free_blocks, nr_free_blocks')]_vars

\* C18's case: the truncation kept the extent that covers block i_blocks - 1,
\* which starts before that block, and freed what followed it
C18_Witness ==
    /\ last.op = "write"
    /\ last.trunc
    /\ ~last.alloc
    /\ ~last.ub
    /\ NrExtents(last.ino) < last.nr_extents
    /\ \E c \in Slots :
          /\ InExtent(index[last.ino][c], inode[last.ino].i_blocks - 1)
          /\ index[last.ino][c].ee_block < inode[last.ino].i_blocks - 1
          /\ NrExtents(last.ino) = c + 1

(***************************************************************************)
(* C19: a write whose byte range ends beyond max_extent_blocks x           *)
(* LOLELFFS_MAX_EXTENTS blocks, max_extent_blocks being the per-extent     *)
(* limit of the extent allocator, fails with EFBIG and leaves the extents  *)
(* of the file and the bitmaps as they were.                               *)
(***************************************************************************)
MaxFileBytes == max_extent_blocks * LOLELFFS_MAX_EXTENTS * LOLELFFS_BLOCK_SIZE

C19_TooBigWriteRejected ==
    [][(last'.op = "write_begin" /\ last'.pos + last'.len > MaxFileBytes) =>
          /\ ret' = "EFBIG"
          /\ UNCHANGED <<index, allocVars>>]_vars

(***************************************************************************)
(* C20: an unlock ioctl issued when the filesystem is already unlocked     *)
(* (the password is not looked at, so this holds for the correct one)      *)
(* returns 0 and leaves the unlocked flag and the master key in memory as  *)
(* the first call left them: the call goes from its test of enc_enabled to *)
(* the test of enc_unlocked and returns from there.                        *)
(***************************************************************************)
C20_SecondUnlockIdempotent ==
    [][\A t \in Threads :
          (/\ pc'[t] # pc[t]
           /\ loc'[t].op = "unlock"
           /\ pc[t] \in {"idle", "ul_lock1", "ul_check"}
           /\ sbi.enc_unlocked) =>
              /\ sbi' = sbi
              /\ pc'[t] \in {"ul_lock1", "ul_check", "idle"}
              /\ pc'[t] = "idle" => ret' = "OK"]_vars

\* C20's case: after an unlock with the correct password stored the key, a
\* call with the correct password returned from the already-unlocked test
C20_Witness ==
    /\ sbi.enc_unlocked
    /\ sbi.enc_master_key_decrypted = MasterKey
    /\ ghost.unlock_ok
    /\ last.op = "unlock"
    /\ ret = "OK"
    /\ \E t \in Threads :
          /\ pc[t] = "idle"
          /\ loc[t].op = "unlock"
          /\ loc[t].password = "correct"
          /\ loc[t].key = NoLoc.key
    /\ \A t \in Threads : pc[t] = "idle"

(***************************************************************************)
(* C21: when the filesystem is locked or unmounted, the master key in      *)
(* memory is overwritten with zeros and the unlocked flag is cleared.      *)
(***************************************************************************)
C21_KeyZeroedOnLock ==
    last.op \in {"lock", "kill_sb"} =>
        /\ ~sbi.enc_unlocked
        /\ sbi.enc_master_key_decrypted = NoKey

(***************************************************************************)
(* C22: the blocks are decrypted under the key the unlock left in memory:  *)
(* a read from the device of an encrypted block returns the bytes that     *)
(* were written when the filesystem was unlocked with the correct          *)
(* password, and never returns them when it was unlocked with another one. *)
(***************************************************************************)
C22_ReadUnderUnlockKey ==
    (/\ last.op = "read"
     /\ ~rd.cached
     /\ rd.enc # LOLELFFS_ENC_NONE
     /\ sbi.enc_unlocked)
        => IF sbi.enc_master_key_decrypted = MasterKey
           THEN ret = "OK" /\ rd.data = ghost.data[rd.blk]
           ELSE ~(ret = "OK" /\ rd.data = ghost.data[rd.blk])

(***************************************************************************)
(* C23: the read path undoes what the write path did to a block: it        *)
(* decrypts and then decompresses with the algorithm ids recorded for the  *)
(* block's extent, and these are the algorithms the write-back of that     *)
(* block compressed and then encrypted it with.                            *)
(***************************************************************************)
ReadTransforms(e) == [comp |-> e.ee_comp_algo, enc |-> e.ee_enc_algo]

WriteTransforms(stored) == [comp |-> stored.comp, enc |-> stored.enc]

C23_ReadInvertsWrite ==
    \A k \in IOBlocks :
        (inode[F].live /\ ghost.synced[k] /\ ExtentOf(index[F], k).ee_start # 0) =>
            ReadTransforms(ExtentOf(index[F], k)) =
                WriteTransforms(disk[ExtentOf(index[F], k).ee_start
                                     + (k - ExtentOf(index[F], k).ee_block)])

(***************************************************************************)
(* C24: the write-back of a block stores it compressed, with the           *)
(* compressed flag set in its extent, exactly when compression succeeds    *)
(* and the compressed size is less than 95% of the 4096 bytes of the       *)
(* block; otherwise the block is stored uncompressed and the flag is       *)
(* clear.                                                                  *)
(***************************************************************************)

SavesFivePercent(s, data) ==
    /\ s.comp_enabled
    /\ s.comp_default_algo # LOLELFFS_COMP_NONE
    /\ lolelffs_compress_block(s.comp_default_algo, Plain(data)).ret = "OK"
    /\ lolelffs_compress_block(s.comp_default_algo, Plain(data)).comp_size * 100
           < LOLELFFS_BLOCK_SIZE * 95

StoredCompressed(idx, dsk, iblock) ==
    /\ CompressedFlag(ExtentOf(idx, iblock))
    /\ dsk[ExtentOf(idx, iblock).ee_start + (iblock - ExtentOf(idx, iblock).ee_block)].comp
           # LOLELFFS_COMP_NONE

StoredUncompressed(idx, dsk, iblock) ==
    /\ ~CompressedFlag(ExtentOf(idx, iblock))
    /\ dsk[ExtentOf(idx, iblock).ee_start + (iblock - ExtentOf(idx, iblock).ee_block)].comp
           = LOLELFFS_COMP_NONE

C24_CompressedIffEffective ==
    [][(last'.op = "writeback" /\ ret' = "OK")
       => IF SavesFivePercent(sbi, pages[rd'.blk].data)
          THEN StoredCompressed(index'[F], disk', rd'.blk)
          ELSE StoredUncompressed(index'[F], disk', rd'.blk)]_vars

(***************************************************************************)
(* C25: after any sequence of writes, in every extent of every inode the   *)
(* compressed flag is set only if the extent's compression algorithm is    *)
(* not "none", and the encrypted flag only if its encryption algorithm is  *)
(* not "none".                                                             *)
(***************************************************************************)

FlagsConsistent(e) ==
    /\ CompressedFlag(e) => e.ee_comp_algo # LOLELFFS_COMP_NONE
    /\ EncryptedFlag(e) => e.ee_enc_algo # LOLELFFS_ENC_NONE

C25_FlagsImplyAlgorithms ==
    \A i \in DOMAIN index : \A x \in DOMAIN index[i] : FlagsConsistent(index[i][x])

\* a write-back has stored a block compressed and set the flag of its extent
C25_Witness ==
    /\ last.op = "writeback" /\ ret = "OK"
    /\ CompressedFlag(ExtentOf(index[F], rd.blk))
    /\ ExtentOf(index[F], rd.blk).ee_comp_algo = sbi.comp_default_algo
    /\ ghost.nr_writes > 0

(***************************************************************************)
(* C26: iterate started from the initial cursor, called until a call       *)
(* produces nothing by a consumer that accepts every entry offered,        *)
(* produces "." and ".." first and then every directory entry with a       *)
(* nonzero inode exactly once, in on-disk order, across all blocks of all  *)
(* used extents.                                                           *)
(***************************************************************************)
RECURSIVE EntriesFrom(_, _, _)
EntriesFrom(eblock, dsk, n) ==
    IF n >= LOLELFFS_MAX_SUBFILES THEN <<>>
    ELSE IF eblock[n \div LOLELFFS_FILES_PER_EXT].ee_start = 0 THEN <<>>
    ELSE With(dsk[eblock[n \div LOLELFFS_FILES_PER_EXT].ee_start
                  + (n % LOLELFFS_FILES_PER_EXT) \div LOLELFFS_FILES_PER_BLOCK]
                 [n % LOLELFFS_FILES_PER_BLOCK],
              LAMBDA ino :
                 (IF ino # 0 THEN <<DirEntry("file", ino)>> ELSE <<>>)
                 \o EntriesFrom(eblock, dsk, n + 1))

Listing == <<DirEntry(".", ROOT), DirEntry("..", ROOT)>> \o EntriesFrom(index[ROOT], disk, 0)

IsPrefix(s, t) == Len(s) <= Len(t) /\ s = SubSeq(t, 1, Len(s))

C27_IterateRestartable ==
    /\ IsPrefix(ghost.produced, Listing)
    /\ (rd.pos >= 2 /\ rd.pos <= LOLELFFS_MAX_SUBFILES + 2)
       => ghost.produced \o EntriesFrom(index[ROOT], disk, rd.pos - 2) = Listing

(***************************************************************************)
(* C28: after a removal of an attribute succeeds, a get of that name finds *)
(* nothing, every other attribute keeps its value and its place relative   *)
(* to the others, the count of the index is one less and its total size is *)
(* less by the 4-byte-aligned size of the entry removed.                   *)
(***************************************************************************)
OthersOf(entries, name) == SelectSeq(entries, LAMBDA e : e.name # name)

RemovedCleanly(ino, name, entries, xi, entries_after, xi_after, rec_after) ==
    /\ lolelffs_xattr_get(rec_after, xi_after, entries_after, name).ret = "ENODATA"
    /\ entries_after = OthersOf(entries, name)
    /\ \A k \in 1 .. Len(entries_after) :
          lolelffs_xattr_get(rec_after, xi_after, entries_after, entries_after[k].name).value
              = [len |-> entries_after[k].value_len, val |-> entries_after[k].value]
    /\ xi_after.count = U32(xi.count - 1)
    /\ xi_after.total_size
           = xi.total_size - EntrySize(entries[lolelffs_xattr_find_entry(entries, name)])

C29_FormatThenCheck ==
    /\ (last.op = "mkfs" /\ disk.size.blocks >= MKFS_MIN_BLOCKS) => ret = "OK"
    /\ (last.op = "fsck" /\ disk.formatted) => rd.errors = 0

(***************************************************************************)
(* C30: after format, inode 0 is a directory of mode 0755 with link count  *)
(* 2 and one reserved data block, it is the only inode marked used, the    *)
(* blocks marked used are exactly the superblock, the inode store, the     *)
(* bitmaps and the root's block, whatever the size of the image, and the   *)
(* stored free counters equal the numbers of free bits of the bitmaps.     *)
(***************************************************************************)
Mode0755 == {"S_IRUSR", "S_IWUSR", "S_IXUSR", "S_IRGRP", "S_IXGRP", "S_IROTH", "S_IXOTH"}

C30_FreshImageLayout ==
    (last.op = "mkfs" /\ ret = "OK")
    => /\ disk.root.i_mode = [fmt |-> "S_IFDIR", perm |-> Mode0755]
       /\ disk.root.i_nlink = 2
       /\ disk.root.i_blocks = 1
       /\ disk.root.ei_block = 1 + disk.sb.nr_istore_blocks + disk.sb.nr_ifree_blocks
                                 + disk.sb.nr_bfree_blocks
       /\ disk.ifree.zeros = 1
       /\ disk.bfree.zeros = disk.root.ei_block + 1
       /\ disk.sb.nr_free_inodes = free_count(disk.ifree, disk.sb.nr_inodes)
       /\ disk.sb.nr_free_blocks = free_count(disk.bfree, disk.sb.nr_blocks)

(***************************************************************************)
(* C31: check examines every used extent of every inode of the image: an   *)
(* image with a used extent whose flags and algorithm ids disagree, whose  *)
(* blocks lie outside the image, or whose algorithm id is not a known one  *)
(* is reported with at least one error, never as clean.                    *)
(***************************************************************************)
UsedExtents(eblock) ==
    {eblock[i] : i \in {j \in Slots : \A k \in 0 .. j : eblock[k].ee_start # 0}}

UnsoundExtent(sb, e) ==
    \/ ~FlagsConsistent(e)
    \/ e.ee_start + e.ee_len > sb.nr_blocks
    \/ e.ee_comp_algo > LOLELFFS_COMP_MAX_ALGO
    \/ e.ee_enc_algo > LOLELFFS_ENC_MAX_ALGO

C31_UnsoundExtentReported ==
    (/\ last.op = "fsck"
     /\ \E e \in UsedExtents(disk.root_index) \cup UsedExtents(disk.file_index) :
            UnsoundExtent(disk.sb, e))
    => rd.errors > 0

(***************************************************************************)
(* C32: every access to the backing store addresses the physical block     *)
(* plus the base offset, the offset applied once; with a base offset that  *)
(* is not zero a file block is read from the block it was written to and   *)
(* the read gives back what was written.                                   *)
(***************************************************************************)
C32_OffsetAppliedOnce ==
    /\ last.op # "mount" => last.addr = last.phys + sbi.fs_offset
    /\ last.op = "read" => (ret = "OK" /\ rd.data = ghost.data[last.blk])

(***************************************************************************)
(* C33: after get_block(logical, create) has succeeded, logical lies in a  *)
(* used extent of the index and the block that was mapped is ee_start +    *)
(* (logical - ee_block) of that extent, the block the read and the         *)
(* write-back paths compute for logical.                                   *)
(***************************************************************************)
C33_MappedBlockInExtent ==
    (last.op = "get_block" /\ last.create /\ ret = "OK")
    => /\ ExtentOf(index[F], rd.blk).ee_start # 0
       /\ InExtent(ExtentOf(index[F], rd.blk), rd.blk)
       /\ last.bno = ExtentOf(index[F], rd.blk).ee_start
                     + (rd.blk - ExtentOf(index[F], rd.blk).ee_block)

(***************************************************************************)
(* C34: the write-back of one block of an extent never changes how         *)
(* another block of the file, written back before, is decoded on read: the *)
(* algorithm ids the read path takes from that block's extent stay those   *)
(* of the block's own last write-back.                                     *)
(***************************************************************************)
C34_WritebackKeepsOtherBlocks ==
    [][(last'.op = "writeback")
       => \A j \in IOBlocks \ {rd'.blk} :
             (ghost.synced[j] /\ ExtentOf(index[F], j).ee_start # 0)
             => ReadTransforms(ExtentOf(index'[F], j))
                = ReadTransforms(ExtentOf(index[F], j))]_vars

(***************************************************************************)
(* C35: at every moment, under every interleaving of allocations and of    *)
(* the freeing loops of rollback and truncation, each block is owned by at *)
(* most one extent or index pointer across all inodes; no allocation       *)
(* returns blocks that were allocated and not freed since, and none        *)
(* returns the superblock, an inode-store block or a bitmap block.         *)
(***************************************************************************)
OwnersOf(b) ==
    {<<f, s>> \in OwnFiles \X Slots : b \in ExtentBlocks(index[f][s])}
    \cup {<<f, "ei_block">> : f \in {g \in OwnFiles : inode[g].ei_block = b}}

C35_SingleOwner ==
    /\ \A b \in 0 .. (NR_BLOCKS - 1) : Cardinality(OwnersOf(b)) <= 1
    /\ last.op = "alloc" => (last.fresh /\ last.bno >= NR_META_BLOCKS)

(***************************************************************************)
(* C36: a shrink never frees or zeroes an extent that contains a logical   *)
(* block below the new block count of the file, ceil(i_size / 4096),       *)
(* whatever the layout of the extents, an index with every slot used       *)
(* included; the used extents that remain are a prefix of the index        *)
(* without gaps.                                                           *)
(***************************************************************************)
BlockCount(i_size) == (i_size + LOLELFFS_BLOCK_SIZE - 1) \div LOLELFFS_BLOCK_SIZE

UsedPrefix(idx) ==
    \A s \in Slots : idx_used(idx, s) => \A u \in 0 .. (s - 1) : idx_used(idx, u)

C36_ShrinkKeepsLowExtents ==
    [][(last'.op = "write" /\ last'.trunc) =>
          /\ \A s \in Slots :
                (/\ idx_used(index[last'.ino], s)
                 /\ index[last'.ino][s].ee_block < BlockCount(inode'[last'.ino].i_size))
                => /\ index'[last'.ino][s] = index[last'.ino][s]
                   /\ \A b \in ExtentBlocks(index[last'.ino][s]) : ~bfree_bitmap'[b]
          /\ UsedPrefix(index'[last'.ino])]_vars

(***************************************************************************)
(* C37: of two unlock calls that run concurrently on a locked filesystem,  *)
(* at most one publishes a key.  A call enters its store section (dir.c    *)
(* 268-270) only while the unlocked flag is still false, and a call that   *)
(* finds the flag already set by another call when it stores does not      *)
(* change the master key in memory.                                        *)
(***************************************************************************)
C37_SinglePublisher ==
    [][\A t \in Threads :
          /\ (pc[t] = "ul_lock2" /\ pc'[t] = "ul_store") => ~sbi.enc_unlocked
          /\ (pc[t] = "ul_store" /\ "flag" \in loc[t].todo /\ sbi.enc_unlocked)
                => sbi'.enc_master_key_decrypted = sbi.enc_master_key_decrypted]_vars

(***************************************************************************)
(* C38: on an extent index that satisfies the contiguity invariant, for    *)
(* every logical block and every hint (a used slot that covers the block,  *)
(* a used slot that does not, a slot behind the used prefix, a value       *)
(* behind the index), the search with a hint returns what the plain binary *)
(* search returns for the same block.                                      *)
(***************************************************************************)
C38_HintSearchSameResult ==
    last.op = "ext_search_with_hint" =>
        /\ C2_ExtentIndexWellFormed
        /\ ret = lolelffs_ext_search(index[F], last.iblock)

\* C38's case: the hint named a used extent, the block was in neither that
\* extent nor the next one, and the search still found the covering extent
C38_Witness ==
    /\ last.op = "ext_search_with_hint"
    /\ last.hint < NrExtents(F)
    /\ ret < NrExtents(F)
    /\ ret # last.hint
    /\ ret # last.hint + 1
    /\ InExtent(index[F][ret], last.iblock)

(***************************************************************************)
(* C39: an xattr set that fails with EEXIST (create-only, the name         *)
(* exists), ENODATA (replace-only, the name is missing) or ENOSPC (size    *)
(* limit exceeded, no space for the data) leaves the attribute store of    *)
(* the inode as it was: the same xattr block, entry count, total size,     *)
(* names and values, and no block allocated or freed.                      *)
(***************************************************************************)
XattrStoreVars == <<inode, xindex, xdata, bfree_bitmap, nr_free_blocks>>

C39_FailedSetChangesNothing ==
    [][(last'.op = "xattr_set" /\ ret' \in {"EEXIST", "ENODATA", "ENOSPC"})
          => UNCHANGED XattrStoreVars]_vars

(***************************************************************************)
(* C40: the unlock ioctl never reads more password bytes than the          *)
(* PASSWORD_SIZE bytes of the request's password buffer: a request whose   *)
(* password_len is larger is rejected with an error before the key         *)
(* derivation, or the key derivation is given at most PASSWORD_SIZE bytes. *)
(***************************************************************************)
C40_PasswordReadInBuffer ==
    last.op = "unlock" =>
        /\ last.read <= PASSWORD_SIZE
        /\ last.password_len > PASSWORD_SIZE => (ret = "EINVAL" \/ last.read <= PASSWORD_SIZE)

(***************************************************************************)
(* C4: a read of a block that was written and written back returns         *)
(* exactly the written bytes (every written half of the block), for every  *)
(* combination of compression in {none, lz4, zlib} and encryption in       *)
(* {none, aes-xts}, the filesystem being unlocked when it is encrypted.    *)
(***************************************************************************)
C4_RoundTrip ==
    (/\ last.op = "read"
     /\ ghost.synced[rd.blk]
     /\ sbi.enc_enabled => sbi.enc_unlocked)
        => /\ ret = "OK"
           /\ \A h \in Halves :
                  ghost.data[rd.blk][h] # "unwritten"
                      => rd.data[h] = ghost.data[rd.blk][h]

(***************************************************************************)
(* C5: while the filesystem is locked, a read from the device of a block   *)
(* whose extent records an encryption algorithm fails with EPERM, and so   *)
(* does the write-back of a block when encryption is enabled.              *)
(***************************************************************************)
C5_LockedIODenied ==
    /\ (last.op = "read" /\ ~rd.cached /\ rd.enc # LOLELFFS_ENC_NONE
            /\ ~sbi.enc_unlocked) => ret = "EPERM"
    /\ (last.op = "writeback" /\ sbi.enc_enabled /\ ~sbi.enc_unlocked)
            => ret = "EPERM"

(***************************************************************************)
(* C6: an encrypted filesystem is locked when it is mounted; a read of an  *)
(* encrypted block from the device fails with EPERM until an unlock with   *)
(* the correct password has returned, and succeeds after it.               *)
(***************************************************************************)
C6_LockedUntilUnlock ==
    (last.op = "read" /\ ~rd.cached /\ rd.enc # LOLELFFS_ENC_NONE)
        => IF ghost.unlock_ok THEN ret = "OK" ELSE ret = "EPERM"

(***************************************************************************)
(* C7: the unlock transition stores the key and sets the flag while it     *)
(* holds sbi->enc_lock; every read and write-back path holds the same      *)
(* mutex when it tests the unlocked flag and when it takes the key; and    *)
(* the key an I/O path uses is a whole key some unlock stored, never an    *)
(* absent or half-stored one.                                              *)
(***************************************************************************)
WholeKey(key) == key.lo = key.hi /\ key # NoKey

C7_KeyUnderEncLock ==
    \A t \in Threads :
        /\ pc[t] \in {"ul_store", "ul_unlock2"} => locks.enc_lock = t
        /\ pc[t] \in {"rf_check", "rf_decrypt", "wp_check", "wp_encrypt"}
               => locks.enc_lock = t
        /\ loc[t].used_key => WholeKey(loc[t].key)

(***************************************************************************)
(* Ordering of the metadata writes and the allocator mutex, on the         *)
(* step-level model.                                                       *)
(***************************************************************************)
\* the physical blocks an extent index references
IndexRefs(idx) == UNION {ExtentBlocks(idx[s]) : s \in Slots}

\* thread t is between the allocation of a new extent and the return of
\* the get_block that created it
CreatingExtent(t) == pc[t] \in {"gb_index", "gb_sync"}
NewExtentBlocks(t) == loc[t].bno .. (loc[t].bno + loc[t].alloc_size - 1)

\* C8: whenever a new extent is created, the allocation of its blocks is
\* recorded in the block bitmap before the extent index block that
\* references them is written; at no point does a written extent index
\* reference a block that the bitmap marks free.
C8_WrittenIndexRefsAllocated ==
    /\ \A t \in Threads :
          CreatingExtent(t) => \A b \in NewExtentBlocks(t) : ~bfree_bitmap[b]
    /\ \A b \in IndexRefs(disk_index) : ~bfree_bitmap[b]

\* C9: in every operation that changes both the extent index and the
\* inode's size or block count, growth and shrink alike, the index block
\* has been written when the inode is flushed.
C9_IndexWrittenBeforeInodeFlush ==
    \A t \in Threads :
        (loc[t].op = "write" /\ loc[t].changes_index /\ loc[t].inode_flushed)
            => loc[t].index_written

\* the steps that change the bitmaps and the free counters, and the steps
\* between a change of the extent index block's buffer and its write
BitmapSteps == {"gb_bits", "fr_bits"}
IndexSteps == {"gb_index", "gb_sync", "fr_clear", "tr_sync", "wp_meta", "wp_sync"}

\* C10: every path that mutates a metadata block (bitmaps and counters, an
\* extent index block) holds the allocator mutex sbi->lock while it does,
\* so two mutators of the same metadata block never interleave.
C10_MutatorsHoldAllocatorMutex ==
    /\ \A t \in Threads : pc[t] \in BitmapSteps \cup IndexSteps => locks.lock = t
    /\ \A t, u \in Threads : t # u => ~(pc[t] \in IndexSteps /\ pc[u] \in IndexSteps)

====
